---- MODULE Spec2Model ----
(***************************************************************************)
(* Statement parsing engines of the bank-statement extractor: the          *)
(* Santander and BBVA row assemblers (coordinate based), the Banorte       *)
(* chunk parser (text based) and the Inbursa page parser.                  *)
(*                                                                         *)
(* Abstractions used throughout:                                           *)
(*  - a text is a sequence of tokens; a token is a word or an amount;      *)
(*    joining with single spaces and stripping is concatenation of token   *)
(*    sequences;                                                           *)
(*  - an amount is a natural number (the amount grammar has no sign), so   *)
(*    round(x, 2) does not change it;                                      *)
(*  - the object identity of a TxRow is the ordinal of the date row that   *)
(*    created it (field id).                                               *)
(***************************************************************************)
EXTENDS Integers, Sequences, FiniteSets, TLC

\* Bounds of the model.
MaxPages == 2
MaxRows == 3
MaxWords == 2
MaxLen == 4
PageWidth == 100
SCALE == 2
NoHit == -1

\* Python's None for an Optional[float] (an empty cell, an unset saldo).
NoAmt == -1

\* Python's None for current_tx_index.
NoIndex == -1

\* No page of the document has matched SKIP_PAGE_PAT so far.
NotSkipped == -1

VARIABLES
    bank,           \* which extractor runs: "SANTANDER", "BBVA", "BANORTE", "INBURSA"
    pc,             \* position of the extractor's loop
    page,           \* number of pages entered so far
    nrows,          \* number of rows consumed so far in the document
    row,            \* the row consumed by the last step (the input of the step)
    \* --- Santander: extract_santander_to_xlsx
    movs_cheques,   \* List[TxRow] of section CUENTA
    movs_inver,     \* List[TxRow] of section INVER
    sant_current,   \* current: Optional[TxRow]
    in_section,     \* in_section: "NONE" (None), "CUENTA" or "INVER"
    first_marker,   \* markers[min(markers)] of the page being read, "NONE" if no marker
    marker_seen,    \* a marker row of this page has been passed
    doc_section,    \* history: section named by the last marker row of the document
    \* --- BBVA: extract_bbva_to_xlsx
    txs,                        \* List[TxRow]
    bbva_current,               \* current: Optional[TxRow]
    second_cross_active,
    current_tx_index,
    hard_stop_after_this_page,
    page_stop,
    saw_totals_here,
    stopped_tx,     \* history: id of the TxRow open when a sentinel row was last met
    skipped_after,  \* history: pages read before the summary page, or NotSkipped
    \* --- Banorte: _parse_section_to_rows
    ban_rows,                   \* rows: List[Dict]
    \* --- Inbursa: _parse_page and extract_inbursa_to_xlsx
    all_rows,       \* all_rows, with the rows of the page being parsed at its end
    inb_cur,        \* cur_date, cur_desc_lines, cur_ref, cur_cargo, cur_abono, cur_saldo
    inb_stash,      \* stash_desc_lines, stash_ref, stash_cargo, stash_abono, stash_saldo
    last_month,
    pending_month,
    active_date,
    footer_seen,    \* history: looks_like_footer held for a line of this page
    mov_df,         \* the movimientos sheet after _merge_orphan_rows
    \* --- the column detector of Santander and BBVA: _detect_columns, _assign_cols
    hits,           \* label key -> centre of its topmost header token, or NoHit
    col_bounds,     \* the bands returned by _detect_columns
    row_words,      \* the centres of the tokens of the row given to _assign_cols
    cols,           \* the columns returned by _assign_cols, each a list of tokens
    \* --- the amount-run extractors: _extract_tail_run, _extract_amount_run
    line,           \* the row text given to the extractor
    extracted,      \* the (desc, vals) it returned
    \* --- the header reader of Santander and BBVA: _extract_header_metadata
    full_text,      \* the matches of each header pattern in the text, in order
    meta,           \* the fields it returned, or the error it raised
    \* --- _reconcile_amounts applied to its own result
    rec_in,         \* the (desc, dep, ret) given to _reconcile_amounts
    rec_out,        \* the (dep, ret) it returned
    rec_again,       \* the (dep, ret) it returned for (desc, rec_out)
    \* --- the amount cells of a line of Inbursa: lines 380-397 of _parse_page
    amt_line,       \* the line whose amount cells are read
    amt_out,         \* v_cargo, v_abono and v_saldo of that line
    \* --- POST /extract/{bank}: extract_generic of app.py
    solicitud       \* the record of the request in table solicitudes, or NoSolicitud

common == <<bank, pc, page, nrows, row>>
sant_state == <<movs_cheques, movs_inver, sant_current, in_section, first_marker,
                marker_seen, doc_section>>
bbva_state == <<txs, bbva_current, second_cross_active, current_tx_index,
                hard_stop_after_this_page, page_stop, saw_totals_here, stopped_tx,
                   skipped_after>>
ban_state == <<ban_rows>>
inb_state == <<all_rows, inb_cur, inb_stash, last_month, pending_month, active_date,
               footer_seen, mov_df>>

col_state == <<hits, col_bounds, row_words, cols>>
run_state == <<line, extracted>>
hdr_state == <<full_text, meta>>
rec_state == <<rec_in, rec_out, rec_again>>
amt_state == <<amt_line, amt_out>>
req_state == <<solicitud>>

vars == <<common, sant_state, bbva_state, ban_state, inb_state, col_state, run_state,
          hdr_state, rec_state, amt_state, req_state>>

\* What the steps of one extractor leave alone: the state of the others.
sant_others == <<bbva_state, ban_state, inb_state, col_state, run_state, hdr_state,
    rec_state, amt_state, req_state>>
bbva_others == <<sant_state, ban_state, inb_state, col_state, run_state, hdr_state,
    rec_state, amt_state, req_state>>
ban_others == <<sant_state, bbva_state, inb_state, col_state, run_state, hdr_state,
    rec_state, amt_state, req_state>>
inb_others == <<sant_state, bbva_state, ban_state, col_state, run_state, hdr_state,
    rec_state, amt_state, req_state>>
col_others == <<sant_state, bbva_state, ban_state, inb_state, run_state, hdr_state,
    rec_state, amt_state, req_state>>
run_others == <<sant_state, bbva_state, ban_state, inb_state, col_state, hdr_state,
    rec_state, amt_state, req_state>>
hdr_others == <<sant_state, bbva_state, ban_state, inb_state, col_state, run_state,
    rec_state, amt_state, req_state>>
rec_others == <<sant_state, bbva_state, ban_state, inb_state, col_state, run_state, hdr_state,
    amt_state, req_state>>
amt_others == <<sant_state, bbva_state, ban_state, inb_state, col_state, run_state, hdr_state, rec_state,
    req_state>>
req_others == <<sant_state, bbva_state, ban_state, inb_state, col_state, run_state, hdr_state, rec_state, amt_state>>

-----------------------------------------------------------------------------
\* Tokens and texts

Word(w) == [k |-> "w", w |-> w, v |-> 0]
Amount(v) == [k |-> "a", w |-> "", v |-> v]

IsAmount(t) == t.k = "a"

\* Indices of the amount tokens of a text, in increasing order.
AmountPositions(s) == {i \in 1..Len(s) : IsAmount(s[i])}

SetMax(S) == CHOOSE x \in S : \A y \in S : y <= x

\* _has_tokens(desc, tokens): some keyword occurs in the text.
_has_tokens(desc, keys) == \E i \in 1..Len(desc) : desc[i].k = "w" /\ desc[i].w \in keys

\* Keyword lists of the Santander classifier, cut to the words of the vocabulary.
ABONO_KEYS == {"ABONO", "DEPOSITO"}
RETIRO_KEYS == {"PAGO", "RETIRO"}

\* A classifier whose default is the withdrawal.
ClassifyDefaultDebit(desc, monto) ==
    IF monto = 0 THEN <<0, 0>>
    ELSE IF _has_tokens(desc, ABONO_KEYS) THEN <<0, monto>>
    ELSE <<monto, 0>>

\* _classify_by_keywords(desc_upper, monto) -> (retiro, deposito)
_classify_by_keywords(desc, monto) ==
    IF monto = 0 THEN <<0, 0>>
    ELSE IF _has_tokens(desc, ABONO_KEYS) THEN <<0, monto>>
    ELSE IF _has_tokens(desc, RETIRO_KEYS) THEN <<monto, 0>>
    ELSE <<0, monto>>

\* _reconcile_amounts that keeps the deposit when the keywords do not decide.
ReconcileKeepCredit(desc, dep, ret) ==
    IF dep > 0 /\ ret > 0
    THEN IF _has_tokens(desc, RETIRO_KEYS) /\ ~_has_tokens(desc, ABONO_KEYS)
         THEN <<0, ret>> ELSE <<dep, 0>>
    ELSE <<dep, ret>>

\* _reconcile_amounts without the keyword tie-break: returns its arguments.
ReconcileNoop(desc, dep, ret) == <<dep, ret>>

\* A reconciliation that moves a lone amount to the other side whatever the
\* description says.
ReconcileMoveAlways(desc, dep, ret) ==
    IF dep > 0 /\ ret > 0 THEN <<0, ret>> ELSE <<ret, dep>>

\* _reconcile_amounts(desc, dep, ret) -> (dep, ret)
_reconcile_amounts(desc, dep, ret) ==
    LET has_abono == _has_tokens(desc, ABONO_KEYS)
        has_retiro == _has_tokens(desc, RETIRO_KEYS)
    IN  IF dep > 0 /\ ret > 0
        THEN IF has_abono /\ ~has_retiro THEN <<dep, 0>>
             ELSE IF has_retiro /\ ~has_abono THEN <<0, ret>>
             ELSE <<0, ret>>
        ELSE IF dep > 0 /\ ret = 0 /\ has_retiro /\ ~has_abono THEN <<0, dep>>
        ELSE IF ret > 0 /\ dep = 0 /\ has_abono /\ ~has_retiro THEN <<ret, 0>>
        ELSE <<dep, ret>>

\* Start index of the right-most contiguous block of at most maxn amounts:
\* the loop of _extract_tail_run walking left from the last amount while
\* nothing but whitespace lies between two amounts.
RECURSIVE TailStart(_, _, _, _)
TailStart(s, start, n, maxn) ==
    IF n < maxn /\ start > 1 /\ IsAmount(s[start - 1])
    THEN TailStart(s, start - 1, n + 1, maxn)
    ELSE start

\* _extract_tail_run(line, maxn) -> (desc, vals)
_extract_tail_run(s, maxn) ==
    IF AmountPositions(s) = {} THEN [desc |-> s, vals |-> <<>>]
    ELSE LET last == SetMax(AmountPositions(s))
             cur_start == TailStart(s, last, 1, maxn)
         IN  [desc |-> SubSeq(s, 1, cur_start - 1),
              vals |-> [i \in 1..(last - cur_start + 1) |-> s[cur_start + i - 1].v]]

\* _pick_amount(cell): the amount of a column cell, None when the cell is empty.
_pick_amount(cell) == cell

-----------------------------------------------------------------------------
\* Santander: rows as _assign_cols and the row tests see them

\* A row of the page: the section marker it carries (_row_section_marker), whether
\* one of the "saltos obvios" filters drops it, whether its FECHA cell holds a date,
\* whether its text holds TOTAL / SALDO FINAL DEL PERIODO (right of its amounts),
\* the words of its DESCRIPCION cell and its DEPOSITO, RETIRO and SALDO cells.
SantRow(marker, skip, date, total, desc, dep, ret, sal) ==
    [marker |-> marker, skip |-> skip, date |-> date, total |-> total,
     desc |-> desc, dep |-> dep, ret |-> ret, sal |-> sal]

NoRow == SantRow("NONE", FALSE, FALSE, FALSE, <<>>, NoAmt, NoAmt, NoAmt)

\* Cells (DEPOSITO, RETIRO, SALDO) of the sample rows.
SantDateCells == {<<NoAmt, NoAmt, NoAmt>>, <<100, 0, 900>>, <<0, 100, 900>>, <<100, 50, 900>>, <<NoAmt, 100, NoAmt>>}
SantAmountCells == {<<NoAmt, NoAmt, 900>>, <<100, 50, 900>>, <<100, NoAmt, NoAmt>>}

SantDateRows ==
    {SantRow("NONE", FALSE, TRUE, FALSE, <<Word("MISC")>>, c[1], c[2], c[3]) : c \in SantDateCells}
    \cup {SantRow("NONE", FALSE, TRUE, FALSE, <<Word("PAGO")>>, 100, NoAmt, NoAmt),
          SantRow("NONE", FALSE, TRUE, FALSE, <<Word("PAGO")>>, 100, NoAmt, 900),
          SantRow("NONE", FALSE, TRUE, FALSE, <<Word("PAGO")>>, 100, 0, 900),
          SantRow("NONE", FALSE, TRUE, FALSE, <<Word("MISC")>>, NoAmt, NoAmt, 900),
          SantRow("NONE", FALSE, TRUE, FALSE, <<Word("MISC")>>, 100, NoAmt, 900),
          SantRow("NONE", FALSE, TRUE, FALSE, <<Word("ABONO")>>, 100, NoAmt, 900),
          SantRow("NONE", FALSE, TRUE, FALSE, <<Word("ABONO"), Word("PAGO")>>, 100, NoAmt, 900)}
SantAmountRows ==
    {SantRow("NONE", FALSE, FALSE, FALSE, <<>>, c[1], c[2], c[3]) : c \in SantAmountCells}
SantTextRows ==
    {SantRow("NONE", FALSE, FALSE, FALSE, <<Word(w)>>, NoAmt, NoAmt, NoAmt) : w \in {"FOO", "BAR"}}
SantMarkerRows ==
    {SantRow(m, FALSE, FALSE, FALSE, <<>>, NoAmt, NoAmt, NoAmt) : m \in {"CUENTA", "INVER"}}
SantSkipRows ==
    {SantRow("NONE", TRUE, FALSE, FALSE, <<Word("FECHA")>>, NoAmt, NoAmt, NoAmt)}

SantRows == SantDateRows \cup SantAmountRows \cup SantTextRows \cup SantMarkerRows \cup SantSkipRows

\* row_text: the words of the row joined left to right (the date token left out).
SantCellText(c) == IF c = NoAmt THEN <<>> ELSE <<Amount(c)>>
SantRowText(r) == r.desc \o SantCellText(r.dep) \o SantCellText(r.ret) \o SantCellText(r.sal)

\* has_money: an amount in the DEPOSITO, RETIRO or SALDO cell.
SantHasMoney(r) == r.dep # NoAmt \/ r.ret # NoAmt \/ r.sal # NoAmt

\* TxRow of santander_extractor
SantTx(id, desc, dep, ret, sal) ==
    [id |-> id, desc |-> desc, deposito |-> dep, retiro |-> ret, saldo |-> sal]
NoTx == SantTx(0, <<>>, 0, 0, NoAmt)

\* flush_current putting the TxRow at the front of its section list.
FlushFront(cur, section, cheques, inver) ==
    IF cur = NoTx \/ section = "NONE" THEN [cheques |-> cheques, inver |-> inver]
    ELSE IF section = "CUENTA"
         THEN [cheques |-> <<cur>> \o cheques, inver |-> inver]
         ELSE [cheques |-> cheques, inver |-> <<cur>> \o inver]

\* flush_current that appends nothing.
FlushNothing(cur, section, cheques, inver) == [cheques |-> cheques, inver |-> inver]

\* flush_current that appends the TxRow to both section lists.
FlushBoth(cur, section, cheques, inver) ==
    IF cur = NoTx \/ section = "NONE" THEN [cheques |-> cheques, inver |-> inver]
    ELSE [cheques |-> Append(cheques, cur), inver |-> Append(inver, cur)]

\* flush_current(cur, section): the two section lists after the call.
flush_current(cur, section, cheques, inver) ==
    IF cur = NoTx \/ section = "NONE" THEN [cheques |-> cheques, inver |-> inver]
    ELSE LET rec == _reconcile_amounts(cur.desc, cur.deposito, cur.retiro)
             t == [cur EXCEPT !.deposito = rec[1], !.retiro = rec[2]]
         IN  IF section = "CUENTA"
             THEN [cheques |-> Append(cheques, t), inver |-> inver]
             ELSE [cheques |-> cheques, inver |-> Append(inver, t)]

\* The TxRow a date row opens (lines 725-767).
SantOpenTx(r, id) ==
    LET run == _extract_tail_run(SantRowText(r), 3)
        tail == run.vals
        desc_fb == run.desc
        n == Len(tail)
        cls == _classify_by_keywords(desc_fb, tail[1])
        dep_fb == IF n = 3 THEN tail[1]
                  ELSE IF n = 2 THEN cls[2]
                  ELSE IF n = 1 /\ r.total THEN cls[2] ELSE 0
        ret_fb == IF n = 3 THEN tail[2]
                  ELSE IF n = 2 THEN cls[1]
                  ELSE IF n = 1 /\ r.total THEN cls[1] ELSE 0
        sal_fb == IF n = 3 THEN tail[3]
                  ELSE IF n = 2 THEN tail[2]
                  ELSE IF n = 1 /\ ~r.total THEN tail[1] ELSE NoAmt
        nocol == r.total \/ n >= 2
        dep_col == IF nocol THEN NoAmt ELSE _pick_amount(r.dep)
        ret_col == IF nocol THEN NoAmt ELSE _pick_amount(r.ret)
        sal_col == IF nocol THEN NoAmt ELSE _pick_amount(r.sal)
        desc_txt == IF desc_fb # <<>> THEN desc_fb ELSE r.desc
        dep_in == IF dep_col # NoAmt THEN dep_col ELSE dep_fb
        ret_in == IF ret_col # NoAmt THEN ret_col ELSE ret_fb
        rec == _reconcile_amounts(desc_txt, dep_in, ret_in)
    IN  SantTx(id, desc_txt, rec[1], rec[2], IF sal_col # NoAmt THEN sal_col ELSE sal_fb)

\* A continuation whose text is appended twice.
SantAppendTwice(cur, r) == [cur EXCEPT !.desc = cur.desc \o r.desc \o r.desc]

\* The open TxRow after a row without a date and without amounts (lines 770-778).
SantAppendText(cur, r) ==
    LET piece_col == r.desc
        piece_fb == _extract_tail_run(SantRowText(r), 3).desc
        piece == IF Len(piece_fb) > Len(piece_col) THEN piece_fb ELSE piece_col
    IN  IF piece # <<>> THEN [cur EXCEPT !.desc = cur.desc \o piece] ELSE cur

\* The open TxRow after a row without a date that carries amounts (lines 780-819).
SantApplyAmounts(cur, r) ==
    LET run == _extract_tail_run(SantRowText(r), 3)
        tail == run.vals
        desc_fb == run.desc
        n == Len(tail)
        cls == _classify_by_keywords(IF desc_fb # <<>> THEN desc_fb ELSE cur.desc, tail[1])
        dep_v == IF n = 3 THEN tail[1]
                 ELSE IF n = 2 THEN cls[2]
                 ELSE IF n = 1 /\ r.total THEN cls[2] ELSE NoAmt
        ret_v == IF n = 3 THEN tail[2]
                 ELSE IF n = 2 THEN cls[1]
                 ELSE IF n = 1 /\ r.total THEN cls[1] ELSE NoAmt
        sal_v == IF n = 3 THEN tail[3]
                 ELSE IF n = 2 THEN tail[2]
                 ELSE IF n = 1 /\ ~r.total THEN tail[1] ELSE NoAmt
        nocol == n >= 2 \/ r.total
        dep_col == IF nocol THEN NoAmt ELSE _pick_amount(r.dep)
        ret_col == IF nocol THEN NoAmt ELSE _pick_amount(r.ret)
        sal_col == IF nocol THEN NoAmt ELSE _pick_amount(r.sal)
        dep1 == IF dep_col # NoAmt THEN dep_col ELSE IF dep_v # NoAmt THEN dep_v ELSE cur.deposito
        ret1 == IF ret_col # NoAmt THEN ret_col ELSE IF ret_v # NoAmt THEN ret_v ELSE cur.retiro
        sal1 == IF sal_col # NoAmt THEN sal_col ELSE IF sal_v # NoAmt THEN sal_v ELSE cur.saldo
        rec == _reconcile_amounts(cur.desc, dep1, ret1)
        piece == IF desc_fb # <<>> THEN desc_fb ELSE r.desc
    IN  SantTx(cur.id, cur.desc \o piece, rec[1], rec[2], sal1)

-----------------------------------------------------------------------------
\* BBVA: rows, TxRow and the helpers of the row loop

\* A row of the page: the hard-stop sentinel it matches ("DASH": dashed line or
\* ESTIMADO CLIENTE, "TOTALS": TOTAL DE MOVIMIENTOS), whether a row filter drops it
\* (DETALLE DE MOVIMIENTOS header, dashed description, notice/footer line), what its
\* OPER/LIQ cells hold ("NONE": empty, "DATE": a dd/MON token, "TEXT": other text),
\* the words of its DESCRIP and REFER cells, and its CARGOS, ABONOS, SALDO OPERACION
\* and SALDO LIQUIDACION cells.
BbvaRow(sentinel, skip, oper, desc, car, abo, sop, sliq) ==
    [sentinel |-> sentinel, skip |-> skip, oper |-> oper, desc |-> desc,
     car |-> car, abo |-> abo, sop |-> sop, sliq |-> sliq]

NoBbvaRow == BbvaRow("NONE", FALSE, "NONE", <<>>, NoAmt, NoAmt, NoAmt, NoAmt)

\* Cells (CARGOS, ABONOS, S OPER, S LIQ) of the sample rows.
BbvaDateCells == {<<NoAmt, NoAmt, NoAmt, NoAmt>>, <<100, NoAmt, NoAmt, NoAmt>>,
                  <<NoAmt, NoAmt, 900, NoAmt>>, <<100, 50, NoAmt, NoAmt>>}
BbvaAmountCells == {<<NoAmt, NoAmt, 900, NoAmt>>, <<NoAmt, 100, NoAmt, NoAmt>>}

BbvaDateRows ==
    {BbvaRow("NONE", FALSE, "DATE", <<Word("MISC")>>, c[1], c[2], c[3], c[4]) : c \in BbvaDateCells}
    \cup {BbvaRow("NONE", FALSE, "DATE", <<Word("ABONO")>>, NoAmt, NoAmt, 900, NoAmt),
          BbvaRow("NONE", FALSE, "TEXT", <<Word("MISC")>>, NoAmt, NoAmt, NoAmt, NoAmt)}
BbvaAmountRows ==
    {BbvaRow("NONE", FALSE, "NONE", <<>>, c[1], c[2], c[3], c[4]) : c \in BbvaAmountCells}
BbvaTextRows ==
    {BbvaRow("NONE", FALSE, "NONE", <<Word(w)>>, NoAmt, NoAmt, NoAmt, NoAmt) :
        w \in {"FOO", "BAR", "CLIENTE"}}
BbvaSentinelRows ==
    {BbvaRow(x, FALSE, "NONE", <<Word("X")>>, NoAmt, NoAmt, NoAmt, NoAmt) : x \in {"DASH", "TOTALS"}}
BbvaSkipRows ==
    {BbvaRow("NONE", TRUE, "NONE", <<Word("DETALLE")>>, NoAmt, NoAmt, NoAmt, NoAmt)}

BbvaRows == BbvaDateRows \cup BbvaAmountRows \cup BbvaTextRows \cup BbvaSentinelRows
            \cup BbvaSkipRows

\* TxRow of bbva_extractor; dated: f_oper / f_liq could be parsed.
BbvaTx(id, dated, desc, cargos, abonos, s_oper, s_liq) ==
    [id |-> id, dated |-> dated, desc |-> desc, cargos |-> cargos, abonos |-> abonos,
     s_oper |-> s_oper, s_liq |-> s_liq]
NoBbvaTx == BbvaTx(0, FALSE, <<>>, 0, 0, NoAmt, NoAmt)

\* Words _strip_crosspage_noise removes: "S.A." always, the notice words on the
\* continuation of the second movement.
CROSS_SA == {"S.A."}
CROSS_SECOND == {"CLIENTE", "AHORA", "ESTIMADO", "CONTRATO"}

RECURSIVE DropWords(_, _)
DropWords(s, W) ==
    IF s = <<>> THEN <<>>
    ELSE IF Head(s).k = "w" /\ Head(s).w \in W THEN DropWords(Tail(s), W)
    ELSE <<Head(s)>> \o DropWords(Tail(s), W)

\* _strip_crosspage_noise(text, is_second)
_strip_crosspage_noise(text, is_second) ==
    DropWords(text, IF is_second THEN CROSS_SA \cup CROSS_SECOND ELSE CROSS_SA)

\* Keyword lists of _maybe_fix_amount_columns, cut to the words of the vocabulary.
BBVA_DEBIT_KW == {"PAGO", "RETIRO", "CARGO"}
BBVA_CREDIT_KW == {"ABONO", "DEPOSITO"}

\* _maybe_fix_amount_columns(tx): the TxRow after the call.
_maybe_fix_amount_columns(tx) ==
    LET saldos == SelectSeq(<<tx.s_oper, tx.s_liq>>, LAMBDA v : v # NoAmt /\ v # 0)
        is_credit == _has_tokens(tx.desc, BBVA_CREDIT_KW)
        is_debit == _has_tokens(tx.desc, BBVA_DEBIT_KW)
    IN  IF tx.cargos = 0 /\ tx.abonos = 0 /\ Len(saldos) = 1
        THEN IF is_credit /\ ~is_debit
             THEN [tx EXCEPT !.abonos = saldos[1], !.s_oper = NoAmt, !.s_liq = NoAmt]
             ELSE [tx EXCEPT !.cargos = saldos[1], !.s_oper = NoAmt, !.s_liq = NoAmt]
        ELSE tx

\* desc_piece of a row (lines 518-539): the DESCRIP and REFER words, cleaned.
BbvaDescPiece(r) ==
    _strip_crosspage_noise(r.desc,
        second_cross_active /\ bbva_current # NoBbvaTx /\ current_tx_index = 1)

\* no_amounts: no amount in the four amount cells.
BbvaNoAmounts(r) == r.car = NoAmt /\ r.abo = NoAmt /\ r.sop = NoAmt /\ r.sliq = NoAmt

\* Step 5 without the two saldo cells.
BbvaStoreNoSaldo(cur, r) ==
    IF cur = NoBbvaTx THEN cur
    ELSE [cur EXCEPT !.cargos = IF r.car # NoAmt THEN r.car ELSE @,
                     !.abonos = IF r.abo # NoAmt THEN r.abo ELSE @]

\* Step 5 of the row loop (lines 584-597): the cells of the row are stored in the
\* open TxRow and the amount columns are fixed.
BbvaStoreAmounts(cur, r) ==
    IF cur = NoBbvaTx THEN cur
    ELSE _maybe_fix_amount_columns(
            [cur EXCEPT !.cargos = IF r.car # NoAmt THEN r.car ELSE @,
                        !.abonos = IF r.abo # NoAmt THEN r.abo ELSE @,
                        !.s_oper = IF r.sop # NoAmt THEN r.sop ELSE @,
                        !.s_liq = IF r.sliq # NoAmt THEN r.sliq ELSE @])

-----------------------------------------------------------------------------
\* Banorte: the chunks of the movements block and the helpers of
\* _parse_section_to_rows

\* Keyword lists of _classify, cut to the words of the vocabulary.
BAN_DEPOSIT_KEYS == {"ABONO", "DEPOSITO"}
BAN_WITHDRAWAL_KEYS == {"PAGO", "RETIRO"}

\* _classify(desc_upper, monto) -> (withdrawal, deposit)
_classify(desc, monto) ==
    IF monto = 0 THEN <<0, 0>>
    ELSE IF _has_tokens(desc, BAN_DEPOSIT_KEYS) THEN <<0, monto>>
    ELSE IF _has_tokens(desc, BAN_WITHDRAWAL_KEYS) THEN <<monto, 0>>
    ELSE <<0, monto>>

\* Number of contiguous amounts from position i on, at most 3.
RECURSIVE AmountsFrom(_, _, _)
AmountsFrom(s, i, n) ==
    IF n < 3 /\ i + n <= Len(s) /\ IsAmount(s[i + n]) THEN AmountsFrom(s, i, n + 1) ELSE n

\* _AMT_RUN_RE.finditer(s): the non-overlapping blocks of 2 or 3 contiguous
\* amounts, matched greedily from left to right.
RECURSIVE AmountRuns(_, _)
AmountRuns(s, i) ==
    IF i > Len(s) THEN <<>>
    ELSE IF AmountsFrom(s, i, 0) >= 2
         THEN <<[first |-> i, last |-> i + AmountsFrom(s, i, 0) - 1]>>
              \o AmountRuns(s, i + AmountsFrom(s, i, 0))
         ELSE AmountRuns(s, i + 1)

\* _extract_amount_run(s) -> (desc, vals): the right-most block is cut out of the
\* text; without a block the last single amount is.
_extract_amount_run(s) ==
    LET runs == AmountRuns(s, 1)
    IN  IF runs # <<>>
        THEN LET m == runs[Len(runs)]
             IN  [desc |-> SubSeq(s, 1, m.first - 1) \o SubSeq(s, m.last + 1, Len(s)),
                  vals |-> [i \in 1..(m.last - m.first + 1) |-> s[m.first + i - 1].v]]
        ELSE IF AmountPositions(s) # {}
        THEN LET k == SetMax(AmountPositions(s))
             IN  [desc |-> SubSeq(s, 1, k - 1) \o SubSeq(s, k + 1, Len(s)),
                  vals |-> <<s[k].v>>]
        ELSE [desc |-> s, vals |-> <<>>]

\* A chunk of the block: whether _parse_fecha_es accepts its date token, and the
\* tokens of its body.
BanChunk(date, body) == [date |-> date, body |-> body]
NoChunk == BanChunk(FALSE, <<>>)

BanBodies ==
    {<<Word("MISC"), Amount(100), Amount(0), Amount(900)>>,
     <<Word("MISC"), Amount(0), Amount(100), Amount(900)>>,
     <<Word("MISC"), Amount(100), Amount(50), Amount(900)>>,
     <<Word("PAGO"), Amount(100), Amount(900)>>,
     <<Word("MISC"), Amount(100), Amount(900)>>,
     <<Word("ABONO"), Amount(100), Amount(900)>>,
     <<Word("ABONO"), Word("PAGO"), Amount(100), Amount(900)>>,
     <<Word("MISC"), Amount(900)>>,
     <<Word("MISC")>>,
     <<Word("MISC"), Amount(100), Amount(900), Word("FOO")>>,
     <<Word("MISC"), Amount(50), Amount(100), Amount(0), Amount(900)>>}

BanChunks == {BanChunk(TRUE, b) : b \in BanBodies} \cup {BanChunk(FALSE, <<Word("MISC"), Amount(900)>>)}

\* A row dict of _parse_section_to_rows; id: the ordinal of its chunk, 0 for the
\* SALDO ANTERIOR row.
BanRow(id, desc, dep, ret, bal) ==
    [id |-> id, desc |-> desc, deposit |-> dep, withdrawal |-> ret, balance |-> bal]

\* The row of a chunk with the first amount of a run of 3 taken as the withdrawal.
BanParseChunkSwapped(c, id) ==
    LET run == _extract_amount_run(c.body)
        tail == run.vals
        n == Len(tail)
    IN  BanRow(id, run.desc,
               IF n = 3 THEN tail[2] ELSE 0,
               IF n = 3 THEN tail[1] ELSE 0,
               IF n >= 1 THEN tail[n] ELSE NoAmt)

\* The row of a chunk with a single amount taken as the deposit.
BanParseChunkSingleCredit(c, id) ==
    LET run == _extract_amount_run(c.body)
        tail == run.vals
        n == Len(tail)
    IN  BanRow(id, run.desc,
               IF n >= 1 THEN tail[1] ELSE 0,
               IF n = 3 THEN tail[2] ELSE 0,
               IF n >= 2 THEN tail[n] ELSE NoAmt)

\* Lines 324-344: the row of a chunk whose date is accepted.
BanParseChunk(c, id) ==
    LET run == _extract_amount_run(c.body)
        tail == run.vals
        n == Len(tail)
        cls == _classify(run.desc, tail[1])
        dep == IF n = 3 THEN tail[1] ELSE IF n = 2 THEN cls[2] ELSE 0
        ret == IF n = 3 THEN tail[2] ELSE IF n = 2 THEN cls[1] ELSE 0
        bal == IF n = 3 THEN tail[3] ELSE IF n = 2 THEN tail[2]
               ELSE IF n = 1 THEN tail[1] ELSE NoAmt
    IN  BanRow(id, run.desc, dep, ret, bal)

-----------------------------------------------------------------------------
\* Inbursa: lines of a page, the row under construction and the helpers of
\* _parse_page

\* A date string dd-mm-yyyy of the statement year; NoDate is None.
InbDate(mon, day) == [mon |-> mon, day |-> day]
NoDate == InbDate("", 0)

\* The FECHA cell of a line: "NONE" (empty), "MON_DAY", "MON_ONLY", "DAY_ONLY".
InbFecha(kind, mon, day) == [kind |-> kind, mon |-> mon, day |-> day]
NoFecha == InbFecha("NONE", "", 0)

\* A line below the column header: whether looks_like_footer holds, its FECHA
\* cell, the 10-digit reference found in REFERENCIA and CONCEPTO ("" if none),
\* the lines of its CONCEPTO cell, its CARGOS and ABONOS cells and the amounts
\* of its SALDO cell.
InbLine(footer, fecha, ref, conc, car, abo, sal) ==
    [footer |-> footer, fecha |-> fecha, ref |-> ref, conc |-> conc,
     car |-> car, abo |-> abo, sal |-> sal]
NoLine == InbLine(FALSE, NoFecha, "", <<>>, NoAmt, NoAmt, <<>>)

InbLines ==
    {InbLine(TRUE, NoFecha, "", <<Word("BANCO INBURSA")>>, NoAmt, NoAmt, <<>>),
     InbLine(FALSE, InbFecha("MON_DAY", "ENE", 1), "R1", <<Word("FOO")>>, NoAmt, 100, <<900>>),
     InbLine(FALSE, InbFecha("MON_DAY", "ENE", 2), "", <<Word("DEPOSITO SPEI")>>, NoAmt, NoAmt, <<>>),
     InbLine(FALSE, InbFecha("MON_ONLY", "FEB", 0), "", <<>>, NoAmt, NoAmt, <<>>),
     InbLine(FALSE, InbFecha("DAY_ONLY", "", 3), "", <<Word("MISC")>>, 100, NoAmt, <<>>),
     InbLine(FALSE, NoFecha, "", <<Word("BAR")>>, NoAmt, NoAmt, <<>>),
     InbLine(FALSE, NoFecha, "R2", <<Word("DEPOSITO SPEI")>>, NoAmt, NoAmt, <<>>),
     InbLine(FALSE, NoFecha, "", <<>>, NoAmt, NoAmt, <<100, 900>>),
     InbLine(FALSE, NoFecha, "", <<Word("INTERESES GANADOS")>>, NoAmt, 50, <<>>)}

\* The row under construction (cur_*) and the stash (stash_*, date unused).
InbTx(date, desc, ref, cargo, abono, saldo) ==
    [date |-> date, desc |-> desc, ref |-> ref, cargo |-> cargo, abono |-> abono,
     saldo |-> saldo]
NoInbTx == InbTx(NoDate, <<>>, "", NoAmt, NoAmt, NoAmt)

\* ROW_START_RX: concept lines that start a new movement.
ROW_START == {"DEPOSITO SPEI", "INTERESES GANADOS", "BALANCE INICIAL"}

\* _normalize_concept_lines(lines): INTERESES GANADOS anywhere replaces the text.
_normalize_concept_lines(lines) ==
    IF _has_tokens(lines, {"INTERESES GANADOS"}) THEN <<Word("INTERESES GANADOS")>>
    ELSE lines

\* flush that forgets the row under construction without appending it.
InbFlushNothing(rows, cur, force) == [rows |-> rows, cur |-> NoInbTx]

\* flush(force): rows and cur_* after the call.
flush(rows, cur, force) ==
    [rows |-> IF cur.date # NoDate
                 /\ (force \/ cur.desc # <<>> \/ cur.cargo # NoAmt \/ cur.abono # NoAmt
                     \/ cur.saldo # NoAmt)
              THEN Append(rows, [cur EXCEPT !.desc = _normalize_concept_lines(@)])
              ELSE rows,
     cur |-> NoInbTx]

\* A reader of the FECHA cell for which a month alone is not remembered as the
\* last month, and a day alone prefers the last month to the pending one.
InbParseFechaStaleMonth(f, last, pending) ==
    IF f.kind = "MON_DAY" THEN <<InbDate(f.mon, f.day), f.mon, "">>
    ELSE IF f.kind = "MON_ONLY" THEN <<NoDate, last, f.mon>>
    ELSE IF f.kind = "DAY_ONLY" /\ (pending # "" \/ last # "")
    THEN <<InbDate(IF last # "" THEN last ELSE pending, f.day), last, "">>
    ELSE <<NoDate, last, pending>>

\* Lines 319-337: new_date and the month memory after the FECHA cell of a line;
\* out: <<new_date, last_month, pending_month>>.
InbParseFecha(f, last, pending) ==
    IF f.kind = "MON_DAY" THEN <<InbDate(f.mon, f.day), f.mon, "">>
    ELSE IF f.kind = "MON_ONLY" THEN <<NoDate, f.mon, f.mon>>
    ELSE IF f.kind = "DAY_ONLY" /\ (pending # "" \/ last # "")
    THEN <<InbDate(IF pending # "" THEN pending ELSE last, f.day), last, "">>
    ELSE <<NoDate, last, pending>>

\* A reading of the amount cells that tries the debit before the credit.
InbAmountsDebitFirst(l) ==
    LET v_saldo0 == IF l.sal # <<>> THEN l.sal[1] ELSE NoAmt
        fb_cargo == l.car = NoAmt /\ Len(l.sal) >= 2
        fb_abono == l.abo = NoAmt /\ Len(l.sal) >= 2 /\ ~fb_cargo
    IN  [cargo |-> IF fb_cargo THEN l.sal[Len(l.sal) - 1] ELSE l.car,
         abono |-> IF fb_abono THEN l.sal[Len(l.sal) - 1] ELSE l.abo,
         saldo |-> IF (fb_cargo \/ fb_abono) /\ v_saldo0 = NoAmt
                   THEN l.sal[Len(l.sal)] ELSE v_saldo0]

\* Lines 380-397: v_cargo, v_abono and v_saldo of a line.
InbAmounts(l) ==
    LET v_cargo0 == l.car
        v_abono0 == l.abo
        v_saldo0 == IF l.sal # <<>> THEN l.sal[1] ELSE NoAmt
        fb_abono == v_abono0 = NoAmt /\ Len(l.sal) >= 2
        v_abono1 == IF fb_abono THEN l.sal[Len(l.sal) - 1] ELSE v_abono0
        v_saldo1 == IF fb_abono /\ v_saldo0 = NoAmt THEN l.sal[Len(l.sal)] ELSE v_saldo0
        fb_cargo == v_cargo0 = NoAmt /\ Len(l.sal) >= 2 /\ v_abono1 = NoAmt
        v_cargo1 == IF fb_cargo THEN l.sal[Len(l.sal) - 1] ELSE v_cargo0
        v_saldo2 == IF fb_cargo /\ v_saldo1 = NoAmt THEN l.sal[Len(l.sal)] ELSE v_saldo1
    IN  [cargo |-> v_cargo1, abono |-> v_abono1, saldo |-> v_saldo2]

\* The amounts of a line stored in cur_* or stash_* (lines 399-406).
InbStore(t, v) ==
    [t EXCEPT !.cargo = IF v.cargo # NoAmt THEN v.cargo ELSE @,
              !.abono = IF v.abono # NoAmt THEN v.abono ELSE @,
              !.saldo = IF v.saldo # NoAmt THEN v.saldo ELSE @]

\* A dated row that ignores what was stashed above it.
InbDropStash(stash, nd) == [NoInbTx EXCEPT !.date = nd]

\* Lines 340-348: cur_* of the row opened by new_date, after flush(): the stash
\* moves into it.
InbAttachStash(stash, nd) == [stash EXCEPT !.date = nd]

\* Lines 309-406: rows, cur_*, stash_* and active_date after a line that is no
\* footer, nd being its new_date.
InbStep(rows, cur, stash, active, l, nd) ==
    LET \* lines 339-348
        f1 == IF nd # NoDate THEN flush(rows, cur, FALSE) ELSE [rows |-> rows, cur |-> cur]
        cur1 == IF nd # NoDate THEN InbAttachStash(stash, nd) ELSE cur
        stash1 == IF nd # NoDate THEN NoInbTx ELSE stash
        active1 == IF nd # NoDate THEN nd ELSE active
        \* lines 350-365
        ref_cand == l.ref
        starts_new == l.conc # <<>> /\ l.conc[1].w \in ROW_START
        have_any == cur1.desc # <<>> \/ cur1.ref # "" \/ cur1.cargo # NoAmt
                    \/ cur1.abono # NoAmt \/ cur1.saldo # NoAmt
        ref_changes == ref_cand # "" /\ ((cur1.ref # "" /\ ref_cand # cur1.ref)
                                         \/ (cur1.ref = "" /\ have_any))
        split == cur1.date # NoDate /\ (ref_changes \/ (starts_new /\ cur1.desc # <<>>))
        f2 == IF split THEN flush(f1.rows, cur1, FALSE) ELSE [rows |-> f1.rows, cur |-> cur1]
        cur2 == IF split THEN [NoInbTx EXCEPT !.date = active1] ELSE cur1
        open == cur2.date # NoDate
        \* lines 367-378
        cur3 == IF open
                THEN [cur2 EXCEPT !.ref = IF ref_cand # "" /\ @ = "" THEN ref_cand ELSE @,
                                  !.desc = @ \o l.conc]
                ELSE cur2
        stash3 == IF open THEN stash1
                  ELSE [stash1 EXCEPT !.ref = IF ref_cand # "" THEN ref_cand ELSE @,
                                      !.desc = @ \o l.conc]
        v == InbAmounts(l)
    IN  [rows |-> f2.rows,
         cur |-> IF open THEN InbStore(cur3, v) ELSE cur3,
         stash |-> IF open THEN stash3 ELSE InbStore(stash3, v),
         active |-> active1]

\* Whether _merge_orphan_rows folds a row into the row before it.
InbOrphan(r) ==
    r.ref = "" /\ r.cargo = NoAmt /\ r.abono = NoAmt /\ r.saldo = NoAmt /\ r.desc # <<>>

\* _merge_orphan_rows(df)
RECURSIVE _merge_orphan_rows(_, _)
_merge_orphan_rows(df, out) ==
    IF df = <<>> THEN out
    ELSE IF InbOrphan(Head(df)) /\ Len(out) > 0
    THEN _merge_orphan_rows(Tail(df),
            [out EXCEPT ![Len(out)].desc = @ \o Head(df).desc])
    ELSE _merge_orphan_rows(Tail(df), Append(out, Head(df)))

-----------------------------------------------------------------------------
\* The state of an extractor that is not running.

SantIdle ==
    /\ movs_cheques = <<>> /\ movs_inver = <<>> /\ sant_current = NoTx
    /\ in_section = "NONE" /\ first_marker = "NONE" /\ marker_seen = FALSE
    /\ doc_section = "CUENTA"

BbvaIdle ==
    /\ txs = <<>> /\ bbva_current = NoBbvaTx /\ second_cross_active = FALSE
    /\ current_tx_index = NoIndex /\ hard_stop_after_this_page = FALSE
    /\ page_stop = FALSE /\ saw_totals_here = FALSE /\ stopped_tx = 0
    /\ skipped_after = NotSkipped

BanIdle == ban_rows = <<>>

ColIdle == hits = <<>> /\ col_bounds = <<>> /\ row_words = <<>> /\ cols = <<>>

NoRun == [desc |-> <<>>, vals |-> <<>>]
RunIdle == line = <<>> /\ extracted = NoRun

NoMeta == [raised |-> FALSE]
HdrIdle == full_text = <<>> /\ meta = NoMeta

NoPair == <<0, 0>>
RecIdle == rec_in = <<>> /\ rec_out = NoPair /\ rec_again = NoPair

NoAmounts == [cargo |-> NoAmt, abono |-> NoAmt, saldo |-> NoAmt]
AmtIdle == amt_line = NoLine /\ amt_out = NoAmounts

\* No record of the request is stored yet.
NoSolicitud ==
    [estado |-> "none", error |-> "None", salida_nombre |-> "None",
     salida_sha256 |-> "None"]
ReqIdle == solicitud = NoSolicitud

InbIdle ==
    /\ all_rows = <<>> /\ inb_cur = NoInbTx /\ inb_stash = NoInbTx
    /\ last_month = "" /\ pending_month = "" /\ active_date = NoDate
    /\ footer_seen = FALSE /\ mov_df = <<>>

-----------------------------------------------------------------------------
\* Santander: extract_santander_to_xlsx, the page loop (lines 675-824)

SantInit ==
    /\ bank = "SANTANDER"
    /\ pc = "between"
    /\ page = 0
    /\ nrows = 0
    /\ row = NoRow
    /\ movs_cheques = <<>>
    /\ movs_inver = <<>>
    /\ sant_current = NoTx
    /\ in_section = "NONE"
    /\ first_marker = "NONE"
    /\ marker_seen = FALSE
    /\ doc_section = "CUENTA"
    /\ BbvaIdle /\ BanIdle /\ InbIdle /\ ColIdle /\ RunIdle /\ HdrIdle
    /\ RecIdle
    /\ AmtIdle
    /\ ReqIdle

\* The rows a page may still hold: a marker row agrees with the page's marker
\* table (a page without markers holds none, the first one is the first marker).
SantRowFits(r) ==
    /\ r \in SantRows
    /\ r.marker # "NONE" => first_marker # "NONE" /\ (~marker_seen => r.marker = first_marker)

\* Lines 678-698: a page is opened, its marker table is built and the first
\* marker (CUENTA when there is none) becomes the active section.
SantPageStart ==
    /\ bank = "SANTANDER" /\ pc = "between" /\ page < MaxPages
    /\ \E fm \in {"NONE", "CUENTA", "INVER"} :
        /\ first_marker' = fm
        /\ in_section' = IF fm = "NONE" THEN "CUENTA" ELSE fm
    /\ page' = page + 1
    /\ pc' = "rows"
    /\ marker_seen' = FALSE
    /\ row' = NoRow
    /\ UNCHANGED <<sant_others, bank, nrows, movs_cheques, movs_inver, sant_current, doc_section>>

\* Lines 701-705: a marker row flushes the open TxRow and switches the section.
SantMarkerRow ==
    /\ bank = "SANTANDER" /\ pc = "rows" /\ nrows < MaxRows
    /\ \E r \in SantRows :
        /\ SantRowFits(r) /\ r.marker # "NONE"
        /\ LET f == flush_current(sant_current, in_section, movs_cheques, movs_inver)
           IN  movs_cheques' = f.cheques /\ movs_inver' = f.inver
        /\ sant_current' = NoTx
        /\ in_section' = r.marker
        /\ doc_section' = r.marker
        /\ row' = r
    /\ marker_seen' = TRUE
    /\ nrows' = nrows + 1
    /\ UNCHANGED <<sant_others, bank, pc, page, first_marker>>

\* Lines 712-717: header, TOTAL, SALDO FINAL and pagination rows are passed over.
SantSkipRow ==
    /\ bank = "SANTANDER" /\ pc = "rows" /\ nrows < MaxRows
    /\ \E r \in SantRows :
        /\ SantRowFits(r) /\ r.marker = "NONE" /\ r.skip
        /\ row' = r
    /\ nrows' = nrows + 1
    /\ UNCHANGED <<sant_others, bank, pc, page, movs_cheques, movs_inver, sant_current,
                   in_section, first_marker, marker_seen, doc_section>>

\* Lines 723-768: a row with a date flushes the open TxRow and opens a new one.
SantDateRow ==
    /\ bank = "SANTANDER" /\ pc = "rows" /\ nrows < MaxRows
    /\ \E r \in SantRows :
        /\ SantRowFits(r) /\ r.marker = "NONE" /\ ~r.skip /\ r.date
        /\ LET f == flush_current(sant_current, in_section, movs_cheques, movs_inver)
           IN  movs_cheques' = f.cheques /\ movs_inver' = f.inver
        /\ sant_current' = SantOpenTx(r, nrows + 1)
        /\ row' = r
    /\ nrows' = nrows + 1
    /\ UNCHANGED <<sant_others, bank, pc, page, in_section, first_marker, marker_seen, doc_section>>

\* Lines 770-778: a row without date and amounts continues the description.
SantTextRow ==
    /\ bank = "SANTANDER" /\ pc = "rows" /\ nrows < MaxRows
    /\ sant_current # NoTx
    /\ \E r \in SantRows :
        /\ SantRowFits(r) /\ r.marker = "NONE" /\ ~r.skip /\ ~r.date
        /\ ~SantHasMoney(r) /\ r.desc # <<>>
        /\ sant_current' = SantAppendText(sant_current, r)
        /\ row' = r
    /\ nrows' = nrows + 1
    /\ UNCHANGED <<sant_others, bank, pc, page, movs_cheques, movs_inver, in_section,
                   first_marker, marker_seen, doc_section>>

\* Lines 780-819: a row without a date that carries amounts completes the open TxRow.
SantAmountRow ==
    /\ bank = "SANTANDER" /\ pc = "rows" /\ nrows < MaxRows
    /\ sant_current # NoTx
    /\ \E r \in SantRows :
        /\ SantRowFits(r) /\ r.marker = "NONE" /\ ~r.skip /\ ~r.date
        /\ SantHasMoney(r)
        /\ sant_current' = SantApplyAmounts(sant_current, r)
        /\ row' = r
    /\ nrows' = nrows + 1
    /\ UNCHANGED <<sant_others, bank, pc, page, movs_cheques, movs_inver, in_section,
                   first_marker, marker_seen, doc_section>>

\* A row without a date while no TxRow is open matches no branch of the loop.
SantDroppedRow ==
    /\ bank = "SANTANDER" /\ pc = "rows" /\ nrows < MaxRows
    /\ sant_current = NoTx
    /\ \E r \in SantRows :
        /\ SantRowFits(r) /\ r.marker = "NONE" /\ ~r.skip /\ ~r.date
        /\ row' = r
    /\ nrows' = nrows + 1
    /\ UNCHANGED <<sant_others, bank, pc, page, movs_cheques, movs_inver, sant_current,
                   in_section, first_marker, marker_seen, doc_section>>

\* Lines 821-824: at the end of the page the open TxRow is flushed and the
\* section is forgotten. The page ends once its promised marker rows were read.
SantPageEnd ==
    /\ bank = "SANTANDER" /\ pc = "rows"
    /\ first_marker # "NONE" => marker_seen
    /\ LET f == flush_current(sant_current, in_section, movs_cheques, movs_inver)
       IN  movs_cheques' = f.cheques /\ movs_inver' = f.inver
    /\ sant_current' = NoTx
    /\ in_section' = "NONE"
    /\ pc' = "between"
    /\ row' = NoRow
    /\ UNCHANGED <<sant_others, bank, page, nrows, first_marker, marker_seen, doc_section>>

SantNext ==
    \/ SantPageStart
    \/ SantMarkerRow
    \/ SantSkipRow
    \/ SantDateRow
    \/ SantTextRow
    \/ SantAmountRow
    \/ SantDroppedRow
    \/ SantPageEnd


-----------------------------------------------------------------------------
\* BBVA: extract_bbva_to_xlsx, the page loop (lines 477-622)

BbvaInit ==
    /\ bank = "BBVA"
    /\ pc = "between"
    /\ page = 0
    /\ nrows = 0
    /\ row = NoBbvaRow
    /\ BbvaIdle /\ SantIdle /\ BanIdle /\ InbIdle /\ ColIdle /\ RunIdle /\ HdrIdle
    /\ RecIdle
    /\ AmtIdle
    /\ ReqIdle

\* Lines 485-497: a page that is not the summary page is opened.
BbvaPageStart ==
    /\ bank = "BBVA" /\ pc = "between" /\ page < MaxPages
    /\ page' = page + 1
    /\ pc' = "rows"
    /\ row' = NoBbvaRow
    /\ page_stop' = FALSE
    /\ saw_totals_here' = FALSE
    /\ UNCHANGED <<bbva_others, bank, nrows, txs, bbva_current, second_cross_active,
                   current_tx_index, hard_stop_after_this_page, stopped_tx,
                   skipped_after>>

\* A summary page that closes the open TxRow.
BbvaSkipPageClosing ==
    /\ bank = "BBVA" /\ pc = "between" /\ skipped_after = NotSkipped
    /\ skipped_after' = page
    /\ txs' = IF bbva_current # NoBbvaTx THEN Append(txs, bbva_current) ELSE txs
    /\ bbva_current' = NoBbvaTx
    /\ second_cross_active' = FALSE
    /\ UNCHANGED <<bbva_others, bank, pc, page, nrows, row, current_tx_index,
                   hard_stop_after_this_page, page_stop, saw_totals_here, stopped_tx>>

\* Lines 489-490: the "Cuadro resumen ..." page is passed over.
\* A statement holds one such page; it is not counted among the pages read.
BbvaSkipPage ==
    /\ bank = "BBVA" /\ pc = "between" /\ skipped_after = NotSkipped
    /\ skipped_after' = page
    /\ UNCHANGED <<bbva_others, bank, pc, page, nrows, row, txs, bbva_current,
                   second_cross_active, current_tx_index, hard_stop_after_this_page,
                   page_stop, saw_totals_here, stopped_tx>>

\* The row loop that goes on after a sentinel row instead of breaking.
BbvaNoBreak == "rows"

\* Position of the row loop after a sentinel row: the break of lines 506 and 512.
BbvaAfterSentinel == "stop"

\* Lines 503-512: a dashed line, ESTIMADO CLIENTE or TOTAL DE MOVIMIENTOS ends
\* the row loop of the page; the last also sets saw_totals_here.
BbvaSentinelRow ==
    /\ bank = "BBVA" /\ pc = "rows" /\ nrows < MaxRows
    /\ \E r \in BbvaRows :
        /\ r.sentinel # "NONE"
        /\ page_stop' = TRUE
        /\ saw_totals_here' = (saw_totals_here \/ r.sentinel = "TOTALS")
        /\ pc' = BbvaAfterSentinel
        /\ row' = r
    /\ stopped_tx' = IF bbva_current # NoBbvaTx THEN bbva_current.id ELSE stopped_tx
    /\ nrows' = nrows + 1
    /\ UNCHANGED <<bbva_others, bank, page, txs, bbva_current, second_cross_active,
                   current_tx_index, hard_stop_after_this_page, skipped_after>>

\* Lines 506 and 512: the rows of the page below a sentinel row are never read.
BbvaRowAfterStop ==
    /\ bank = "BBVA" /\ pc = "stop" /\ nrows < MaxRows
    /\ \E r \in BbvaRows : row' = r
    /\ nrows' = nrows + 1
    /\ UNCHANGED <<bbva_others, bank, pc, page, bbva_state>>

\* Lines 613-614: the pages after the page of TOTAL DE MOVIMIENTOS are never read.
BbvaPageAfterStop ==
    /\ bank = "BBVA" /\ pc = "after" /\ page < MaxPages
    /\ page' = page + 1
    /\ UNCHANGED <<bbva_others, bank, pc, nrows, row, bbva_state>>

\* Lines 542-555: header, dashed and notice rows are passed over.
BbvaSkipRow ==
    /\ bank = "BBVA" /\ pc = "rows" /\ nrows < MaxRows
    /\ \E r \in BbvaRows :
        /\ r.sentinel = "NONE" /\ r.skip
        /\ row' = r
    /\ nrows' = nrows + 1
    /\ UNCHANGED <<bbva_others, bank, pc, page, bbva_state>>

\* Lines 557-561: a row without dates and amounts continues the description.
BbvaTextRow ==
    /\ bank = "BBVA" /\ pc = "rows" /\ nrows < MaxRows
    /\ \E r \in BbvaRows :
        /\ r.sentinel = "NONE" /\ ~r.skip /\ r.oper = "NONE"
        /\ BbvaNoAmounts(r) /\ BbvaDescPiece(r) # <<>>
        /\ bbva_current' = IF bbva_current # NoBbvaTx
                           THEN [bbva_current EXCEPT !.desc = @ \o BbvaDescPiece(r)]
                           ELSE bbva_current
        /\ row' = r
    /\ nrows' = nrows + 1
    /\ UNCHANGED <<bbva_others, bank, pc, page, txs, second_cross_active,
                   current_tx_index, hard_stop_after_this_page, page_stop, saw_totals_here, stopped_tx,
                   skipped_after>>

\* Lines 563-577 and 583-597: a row with text in OPER or LIQ closes the open TxRow
\* and opens a new one, then stores the amounts of the row.
BbvaDateRow ==
    /\ bank = "BBVA" /\ pc = "rows" /\ nrows < MaxRows
    /\ \E r \in BbvaRows :
        /\ r.sentinel = "NONE" /\ ~r.skip /\ r.oper # "NONE"
        /\ txs' = IF bbva_current # NoBbvaTx THEN Append(txs, bbva_current) ELSE txs
        /\ second_cross_active' = IF bbva_current # NoBbvaTx THEN FALSE
                                  ELSE second_cross_active
        /\ current_tx_index' = Len(txs')
        /\ bbva_current' = BbvaStoreAmounts(
                BbvaTx(nrows + 1, r.oper = "DATE", BbvaDescPiece(r), 0, 0, NoAmt, NoAmt), r)
        /\ row' = r
    /\ nrows' = nrows + 1
    /\ UNCHANGED <<bbva_others, bank, pc, page, hard_stop_after_this_page, page_stop,
                   saw_totals_here, stopped_tx,
                   skipped_after>>

\* Lines 578-597: a row without dates that is no plain text row adds its text
\* and its amounts to the open TxRow.
BbvaAmountRow ==
    /\ bank = "BBVA" /\ pc = "rows" /\ nrows < MaxRows
    /\ \E r \in BbvaRows :
        /\ r.sentinel = "NONE" /\ ~r.skip /\ r.oper = "NONE"
        /\ ~(BbvaNoAmounts(r) /\ BbvaDescPiece(r) # <<>>)
        /\ bbva_current' =
              IF bbva_current = NoBbvaTx THEN bbva_current
              ELSE BbvaStoreAmounts([bbva_current EXCEPT !.desc = @ \o BbvaDescPiece(r)], r)
        /\ row' = r
    /\ nrows' = nrows + 1
    /\ UNCHANGED <<bbva_others, bank, pc, page, txs, second_cross_active,
                   current_tx_index, hard_stop_after_this_page, page_stop, saw_totals_here, stopped_tx,
                   skipped_after>>

\* Lines 599-614: the end of a page; the open TxRow stays open.
BbvaPageEnd ==
    /\ bank = "BBVA" /\ pc \in {"rows", "stop"}
    /\ second_cross_active' = (bbva_current # NoBbvaTx /\ current_tx_index = 1)
    /\ hard_stop_after_this_page' = (hard_stop_after_this_page \/ saw_totals_here)
    /\ pc' = IF hard_stop_after_this_page' THEN "after" ELSE "between"
    /\ row' = NoBbvaRow
    /\ UNCHANGED <<bbva_others, bank, page, nrows, txs, bbva_current, current_tx_index,
                   page_stop, saw_totals_here, stopped_tx,
                   skipped_after>>

\* txs after the safety net of lines 620-622.
BbvaCleanSecond(l) ==
    IF Len(l) >= 2 /\ l[2].desc # <<>>
    THEN [l EXCEPT ![2].desc = _strip_crosspage_noise(@, TRUE)]
    ELSE l

\* Lines 616-622: after the last page the pending TxRow is appended.
BbvaFinish ==
    /\ bank = "BBVA" /\ pc \in {"between", "after"}
    /\ txs' = BbvaCleanSecond(IF bbva_current # NoBbvaTx THEN Append(txs, bbva_current) ELSE txs)
    /\ pc' = "done"
    /\ row' = NoBbvaRow
    /\ UNCHANGED <<bbva_others, bank, page, nrows, bbva_current, second_cross_active,
                   current_tx_index, hard_stop_after_this_page, page_stop, saw_totals_here, stopped_tx,
                   skipped_after>>

BbvaNext ==
    \/ BbvaPageStart
    \/ BbvaSkipPage
    \/ BbvaSentinelRow
    \/ BbvaRowAfterStop
    \/ BbvaPageAfterStop
    \/ BbvaSkipRow
    \/ BbvaTextRow
    \/ BbvaDateRow
    \/ BbvaAmountRow
    \/ BbvaPageEnd
    \/ BbvaFinish


-----------------------------------------------------------------------------
\* Banorte: _parse_section_to_rows (lines 279-346)

BanInit ==
    /\ bank = "BANORTE"
    /\ pc = "prefix"
    /\ page = 0
    /\ nrows = 0
    /\ row = NoChunk
    /\ SantIdle /\ BbvaIdle /\ BanIdle /\ InbIdle /\ ColIdle /\ RunIdle /\ HdrIdle
    /\ RecIdle
    /\ AmtIdle
    /\ ReqIdle

\* Lines 290-301: the text before the first date token; with SALDO ANTERIOR in it
\* a row of that name is added, its balance the last amount of the prefix.
BanPrefix ==
    /\ bank = "BANORTE" /\ pc = "prefix"
    /\ \E prefix \in {<<>>, <<Word("SALDO ANTERIOR"), Amount(900)>>, <<Word("SALDO ANTERIOR")>>} :
        ban_rows' = IF _has_tokens(prefix, {"SALDO ANTERIOR"})
                    THEN <<BanRow(0, <<Word("SALDO ANTERIOR")>>, 0, 0,
                                  IF AmountPositions(prefix) # {}
                                  THEN prefix[SetMax(AmountPositions(prefix))].v ELSE 0)>>
                    ELSE ban_rows
    /\ pc' = "chunks"
    /\ UNCHANGED <<ban_others, bank, page, nrows, row>>

\* Lines 304-344: a chunk with a date _parse_fecha_es accepts adds a row.
BanChunkRow ==
    /\ bank = "BANORTE" /\ pc = "chunks" /\ nrows < MaxRows
    /\ \E c \in BanChunks :
        /\ c.date
        /\ ban_rows' = Append(ban_rows, BanParseChunk(c, nrows + 1))
        /\ row' = c
    /\ nrows' = nrows + 1
    /\ UNCHANGED <<ban_others, bank, pc, page>>

\* Lines 310-313: a chunk whose date is not accepted is passed over.
BanBadDate ==
    /\ bank = "BANORTE" /\ pc = "chunks" /\ nrows < MaxRows
    /\ \E c \in BanChunks :
        /\ ~c.date
        /\ row' = c
    /\ nrows' = nrows + 1
    /\ UNCHANGED <<ban_others, bank, pc, page, ban_rows>>

\* Line 346: the end of the block (or the sentinel that cuts it, lines 284-285).
BanReturn ==
    /\ bank = "BANORTE" /\ pc = "chunks"
    /\ pc' = "done"
    /\ UNCHANGED <<ban_others, bank, page, nrows, row, ban_rows>>

BanNext ==
    \/ BanPrefix
    \/ BanChunkRow
    \/ BanBadDate
    \/ BanReturn


-----------------------------------------------------------------------------
\* Inbursa: _parse_page (lines 236-409) for each page, then _merge_orphan_rows

InbInit ==
    /\ bank = "INBURSA"
    /\ pc = "between"
    /\ page = 0
    /\ nrows = 0
    /\ row = NoLine
    /\ SantIdle /\ BbvaIdle /\ BanIdle /\ InbIdle /\ ColIdle /\ RunIdle /\ HdrIdle
    /\ RecIdle
    /\ AmtIdle
    /\ ReqIdle

\* Lines 237-287: a page with a column header; the state of _parse_page is new.
InbPageStart ==
    /\ bank = "INBURSA" /\ pc = "between" /\ page < MaxPages
    /\ page' = page + 1
    /\ pc' = "rows"
    /\ row' = NoLine
    /\ inb_cur' = NoInbTx /\ inb_stash' = NoInbTx
    /\ last_month' = "" /\ pending_month' = "" /\ active_date' = NoDate
    /\ footer_seen' = FALSE
    /\ UNCHANGED <<inb_others, bank, nrows, all_rows, mov_df>>

\* Lines 237-239: a page without a column header gives no rows.
InbNoHeaderPage ==
    /\ bank = "INBURSA" /\ pc = "between" /\ page < MaxPages
    /\ page' = page + 1
    /\ UNCHANGED <<inb_others, bank, pc, nrows, row, inb_state>>

\* Position of the line loop after a footer line: the break of line 306.
InbAfterFooter == "stop"

\* Lines 304-306: a footer line flushes the row under construction and ends
\* the line loop.
InbFooterLine ==
    /\ bank = "INBURSA" /\ pc = "rows" /\ nrows < MaxRows
    /\ \E l \in InbLines :
        /\ l.footer
        /\ LET f == flush(all_rows, inb_cur, TRUE)
           IN  all_rows' = f.rows /\ inb_cur' = f.cur
        /\ row' = l
    /\ footer_seen' = TRUE
    /\ pc' = InbAfterFooter
    /\ nrows' = nrows + 1
    /\ UNCHANGED <<inb_others, bank, page, inb_stash, last_month, pending_month,
                   active_date, mov_df>>

\* Line 306: the lines of the page below a footer line are never read.
InbLineAfterFooter ==
    /\ bank = "INBURSA" /\ pc = "stop" /\ nrows < MaxRows
    /\ \E l \in InbLines : row' = l
    /\ nrows' = nrows + 1
    /\ UNCHANGED <<inb_others, bank, pc, page, inb_state>>

\* Lines 308-406: any other line.
InbTextLine ==
    /\ bank = "INBURSA" /\ pc = "rows" /\ nrows < MaxRows
    /\ \E l \in InbLines :
        /\ ~l.footer
        /\ LET d == InbParseFecha(l.fecha, last_month, pending_month)
               st == InbStep(all_rows, inb_cur, inb_stash, active_date, l, d[1])
           IN  /\ last_month' = d[2]
               /\ pending_month' = d[3]
               /\ all_rows' = st.rows
               /\ inb_cur' = st.cur
               /\ inb_stash' = st.stash
               /\ active_date' = st.active
        /\ row' = l
    /\ nrows' = nrows + 1
    /\ UNCHANGED <<inb_others, bank, pc, page, footer_seen, mov_df>>

\* Lines 408-409: the end of the page.
InbPageEnd ==
    /\ bank = "INBURSA" /\ pc \in {"rows", "stop"}
    /\ LET f == flush(all_rows, inb_cur, FALSE)
       IN  all_rows' = f.rows /\ inb_cur' = f.cur
    /\ pc' = "between"
    /\ row' = NoLine
    /\ UNCHANGED <<inb_others, bank, page, nrows, inb_stash, last_month, pending_month,
                   active_date, footer_seen, mov_df>>

\* extract_inbursa_to_xlsx, lines 467-475: the sheet of movements.
InbFinish ==
    /\ bank = "INBURSA" /\ pc = "between"
    /\ mov_df' = _merge_orphan_rows(all_rows, <<>>)
    /\ pc' = "done"
    /\ UNCHANGED <<inb_others, bank, page, nrows, row, all_rows, inb_cur, inb_stash,
                   last_month, pending_month, active_date, footer_seen>>

InbNext ==
    \/ InbPageStart
    \/ InbNoHeaderPage
    \/ InbFooterLine
    \/ InbLineAfterFooter
    \/ InbTextLine
    \/ InbPageEnd
    \/ InbFinish

-----------------------------------------------------------------------------
\* The column detector: _detect_columns and _assign_cols of Santander and BBVA.
\* Horizontal positions are stored times SCALE, so that the midpoint of two
\* anchors and the centre of a token are integers.

SANT_LABELS == <<"FECHA", "FOLIO", "DESCRIPCION", "DEPOSITO", "RETIRO", "SALDO">>
SANT_FRACS == <<7, 16, 40, 62, 74, 88>>
BBVA_LABELS == <<"OPER", "LIQ", "CODDESC", "REFERENCIA", "CARGOS", "ABONOS",
                 "OPERACION", "LIQUIDACION">>
BBVA_FRACS == <<8, 13, 33, 51, 70, 78, 86, 94>>

ColLabels(b) == IF b = "SANTANDER" THEN SANT_LABELS ELSE BBVA_LABELS
ColFracs(b) == IF b = "SANTANDER" THEN SANT_FRACS ELSE BBVA_FRACS

\* The header labels found on a page: none; all of them, in place; two labels
\* over the same position; one label left of where its column stands.
NoHits(b) == [i \in 1..Len(ColLabels(b)) |-> NoHit]
SantHitSets ==
    {NoHits("SANTANDER"),
     <<6, 15, 35, 60, 75, 90>>,
     <<NoHit, NoHit, NoHit, 70, 70, NoHit>>,
     <<NoHit, NoHit, NoHit, NoHit, NoHit, 20>>}
BbvaHitSets ==
    {NoHits("BBVA"),
     <<7, 14, 30, 50, 68, 77, 85, 95>>,
     <<86, NoHit, NoHit, NoHit, NoHit, NoHit, 86, NoHit>>,
     <<NoHit, NoHit, NoHit, NoHit, NoHit, 60, NoHit, NoHit>>}
HitSets(b) == IF b = "SANTANDER" THEN SantHitSets ELSE BbvaHitSets

\* cx: the centre of the topmost token of a label, else the default fraction.
cx(h, fracs, i) ==
    IF h[i] # NoHit THEN SCALE * h[i] ELSE (SCALE * PageWidth * fracs[i]) \div 100

RECURSIVE InsertSorted(_, _)
InsertSorted(x, q) ==
    IF q = <<>> THEN <<x>>
    ELSE IF x <= Head(q) THEN <<x>> \o q
    ELSE <<Head(q)>> \o InsertSorted(x, Tail(q))

RECURSIVE sorted(_)
sorted(q) == IF q = <<>> THEN <<>> ELSE InsertSorted(Head(q), sorted(Tail(q)))

mid(a, b) == (a + b) \div 2

\* _detect_columns: the anchors are sorted; a band runs from the midpoint with
\* the anchor on its left plus 1 to the midpoint with the anchor on its right
\* minus 1; the first band starts at 0 and the last ends at the page width.
_detect_columns(h, fracs) ==
    LET n == Len(fracs)
        xs == sorted([i \in 1..n |-> cx(h, fracs, i)])
    IN  [i \in 1..n |->
           << IF i = 1 THEN 0 ELSE mid(xs[i - 1], xs[i]) + SCALE,
              IF i = n THEN SCALE * PageWidth ELSE mid(xs[i], xs[i + 1]) - SCALE >>]

\* The bands that hold a position.
BandsOf(bs, xc) == {i \in 1..Len(bs) : bs[i][1] <= xc /\ xc <= bs[i][2]}

SetMin(S) == CHOOSE x \in S : \A y \in S : x <= y

\* _assign_cols: each token goes to the first band that holds its centre; a
\* token that no band holds goes nowhere.
RECURSIVE _assign_cols(_, _, _)
_assign_cols(ws, bs, acc) ==
    IF ws = <<>> THEN acc
    ELSE LET xc == Head(ws)
             B == BandsOf(bs, xc)
         IN  _assign_cols(Tail(ws), bs,
                 IF B = {} THEN acc
                 ELSE [acc EXCEPT ![SetMin(B)] = Append(@, xc)])

\* The centres of the tokens of a row: the page edges, column anchors and the
\* positions between two default anchors.
WordXs == {0, 14, 23, 80, 136, 148, 176, 200}

RECURSIVE RowsOfWords(_)
RowsOfWords(n) ==
    IF n = 0 THEN {<<>>}
    ELSE RowsOfWords(n - 1) \cup
         {Append(q, x) : q \in {r \in RowsOfWords(n - 1) : Len(r) = n - 1}, x \in WordXs}

ColInit ==
    /\ bank \in {"SANTANDER", "BBVA"}
    /\ pc = "header"
    /\ page = 0
    /\ nrows = 0
    /\ row = (IF bank = "SANTANDER" THEN NoRow ELSE NoBbvaRow)
    /\ SantIdle /\ BbvaIdle /\ BanIdle /\ InbIdle /\ ColIdle /\ RunIdle /\ HdrIdle
    /\ RecIdle
    /\ AmtIdle
    /\ ReqIdle

\* _detect_columns on the words of a page.
DetectColumns ==
    /\ pc = "header"
    /\ \E h \in HitSets(bank) :
         /\ hits' = h
         /\ col_bounds' = _detect_columns(h, ColFracs(bank))
    /\ pc' = "cols"
    /\ UNCHANGED <<bank, page, nrows, row, row_words, cols, col_others>>

\* _assign_cols on one row of the page.
AssignCols ==
    /\ pc = "cols"
    /\ \E ws \in RowsOfWords(MaxWords) :
         /\ row_words' = ws
         /\ cols' = _assign_cols(ws, col_bounds, [i \in 1..Len(col_bounds) |-> <<>>])
    /\ pc' = "assigned"
    /\ UNCHANGED <<bank, page, nrows, row, hits, col_bounds, col_others>>

ColNext ==
    \/ DetectColumns
    \/ AssignCols

-----------------------------------------------------------------------------
\* The amount-run extractors on a row text: _extract_tail_run of Santander and
\* _extract_amount_run of Banorte.

LineTokens == {Word("FOO"), Amount(100), Amount(900)}

RECURSIVE Lines(_)
Lines(n) ==
    IF n = 0 THEN {<<>>}
    ELSE Lines(n - 1) \cup
         {Append(q, t) : q \in {l \in Lines(n - 1) : Len(l) = n - 1}, t \in LineTokens}

RunInit ==
    /\ bank \in {"SANTANDER", "BANORTE"}
    /\ pc = "line"
    /\ page = 0
    /\ nrows = 0
    /\ row = (IF bank = "SANTANDER" THEN NoRow ELSE NoChunk)
    /\ SantIdle /\ BbvaIdle /\ BanIdle /\ InbIdle /\ ColIdle /\ RunIdle /\ HdrIdle
    /\ RecIdle
    /\ AmtIdle
    /\ ReqIdle

\* The extractor of the bank is called on a row text.
ExtractRun ==
    /\ pc = "line"
    /\ \E s \in Lines(MaxLen) :
         /\ line' = s
         /\ extracted' = IF bank = "SANTANDER" THEN _extract_tail_run(s, 3)
                         ELSE _extract_amount_run(s)
    /\ pc' = "extracted"
    /\ UNCHANGED <<bank, page, nrows, row, run_others>>

-----------------------------------------------------------------------------
\* The header reader: _extract_header_metadata of Santander and of BBVA.  The
\* text is seen through the matches of each header pattern, in text order.

NoField == "None"

FieldHits == {<<>>, <<"A">>, <<"A", "B">>}

\* The tax ids a BBVA text can hold: the holder's, and the bank's own of the
\* legal footer.
BbvaRfcHits == {<<>>, <<"A">>, <<"A", "B">>, <<"BBA">>, <<"BBA", "A">>}

\* pattern.search(txt).group(1), or None without a match.
FirstHit(q) == IF q = <<>> THEN NoField ELSE q[1]

\* next((r for r in rfc_hits if not r.startswith(("BBA", "BBM"))), None)
FirstHolderRfc(q) ==
    LET own == SelectSeq(q, LAMBDA r : r # "BBA")
    IN  FirstHit(own)

HeaderTexts(b) ==
    IF b = "SANTANDER"
    THEN [rfc : FieldHits, cliente : FieldHits, clabe : FieldHits, periodo : FieldHits]
    ELSE [rfc : BbvaRfcHits, cliente : FieldHits, clabe : FieldHits, cuenta : FieldHits]

AttributeError == [raised |-> TRUE]

\* Santander: the CLABE is read when the client code pattern matches.
SantHeaderMetadata(t) ==
    IF t.cliente # <<>> /\ t.clabe = <<>> THEN AttributeError
    ELSE [raised |-> FALSE,
          rfc |-> FirstHit(t.rfc),
          cliente |-> FirstHit(t.cliente),
          clabe |-> IF t.cliente # <<>> THEN FirstHit(t.clabe) ELSE NoField,
          periodo |-> FirstHit(t.periodo)]

BbvaHeaderMetadata(t) ==
    [raised |-> FALSE,
     cuenta |-> FirstHit(t.cuenta),
     cliente |-> FirstHit(t.cliente),
     clabe |-> FirstHit(t.clabe),
     rfc |-> FirstHolderRfc(t.rfc)]

_extract_header_metadata(b, t) ==
    IF b = "SANTANDER" THEN SantHeaderMetadata(t) ELSE BbvaHeaderMetadata(t)

HdrInit ==
    /\ bank \in {"SANTANDER", "BBVA"}
    /\ pc = "text"
    /\ page = 0
    /\ nrows = 0
    /\ row = (IF bank = "SANTANDER" THEN NoRow ELSE NoBbvaRow)
    /\ SantIdle /\ BbvaIdle /\ BanIdle /\ InbIdle /\ ColIdle /\ RunIdle /\ HdrIdle
    /\ RecIdle
    /\ AmtIdle
    /\ ReqIdle

\* The header reader is called on the text of the whole document.
ExtractHeaderMetadata ==
    /\ pc = "text"
    /\ \E t \in HeaderTexts(bank) :
         /\ full_text' = t
         /\ meta' = _extract_header_metadata(bank, t)
    /\ pc' = "meta"
    /\ UNCHANGED <<bank, page, nrows, row, hdr_others>>

-----------------------------------------------------------------------------
\* _reconcile_amounts on a description and a pair of amounts, then on its own
\* result with the same description.

RecDescs == {<<Word("MISC")>>, <<Word("ABONO")>>, <<Word("PAGO")>>,
             <<Word("ABONO"), Word("PAGO")>>}

RecAmounts == {0, 100, 900}

RecInit ==
    /\ bank = "SANTANDER"
    /\ pc = "amounts"
    /\ page = 0
    /\ nrows = 0
    /\ row = NoRow
    /\ SantIdle /\ BbvaIdle /\ BanIdle /\ InbIdle /\ ColIdle /\ RunIdle /\ HdrIdle
    /\ RecIdle
    /\ AmtIdle
    /\ ReqIdle

\* dep, ret = _reconcile_amounts(desc, dep, ret)
Reconcile ==
    /\ pc = "amounts"
    /\ \E d \in RecDescs, dep \in RecAmounts, ret \in RecAmounts :
         /\ rec_in' = <<d, dep, ret>>
         /\ rec_out' = _reconcile_amounts(d, dep, ret)
    /\ pc' = "reconciled"
    /\ UNCHANGED <<bank, page, nrows, row, rec_again, rec_others>>

\* The same call on the pair it returned.
ReconcileAgain ==
    /\ pc = "reconciled"
    /\ rec_again' = _reconcile_amounts(rec_in[1], rec_out[1], rec_out[2])
    /\ pc' = "reconciled twice"
    /\ UNCHANGED <<bank, page, nrows, row, rec_in, rec_out, rec_others>>

RecNext ==
    \/ Reconcile
    \/ ReconcileAgain

-----------------------------------------------------------------------------
\* The amount cells of one line of Inbursa, for every filling of the cells.

MaxSaldoAmounts == 3

RECURSIVE SaldoCells(_)
SaldoCells(n) ==
    IF n = 0 THEN {<<>>}
    ELSE SaldoCells(n - 1) \cup
         {Append(q, a) : q \in {c \in SaldoCells(n - 1) : Len(c) = n - 1}, a \in {100, 900}}

AmtLines ==
    {InbLine(FALSE, NoFecha, "", <<>>, car, abo, sal) :
        car \in {NoAmt, 50}, abo \in {NoAmt, 70}, sal \in SaldoCells(MaxSaldoAmounts)}

AmtInit ==
    /\ bank = "INBURSA"
    /\ pc = "cells"
    /\ page = 0
    /\ nrows = 0
    /\ row = NoLine
    /\ SantIdle /\ BbvaIdle /\ BanIdle /\ InbIdle /\ ColIdle /\ RunIdle /\ HdrIdle
    /\ RecIdle /\ AmtIdle
    /\ ReqIdle

\* Lines 380-397 on the cells of a line.
ReadAmounts ==
    /\ pc = "cells"
    /\ \E l \in AmtLines :
         /\ amt_line' = l
         /\ amt_out' = InbAmounts(l)
    /\ pc' = "amounts read"
    /\ UNCHANGED <<bank, page, nrows, row, amt_others>>

-----------------------------------------------------------------------------
\* One request to POST /extract/{bank}, with the database configured: the
\* record of table solicitudes along the steps of extract_generic.  A call that
\* reads or writes files either returns or raises.

EST_OK == "ok"
EST_FAIL == "fail"
EST_PROC == "processing"

\* _insert_processing: the record of a new request.
_insert_processing == [NoSolicitud EXCEPT !.estado = EST_PROC]

\* _update_finish(row_id, estado, error, salida_nombre=, salida_sha256=): every
\* column is written, those that are not given with None.
_update_finish(rec, estado, error, salida_nombre, salida_sha256) ==
    [rec EXCEPT !.estado = estado, !.error = error, !.salida_nombre = salida_nombre,
                !.salida_sha256 = salida_sha256]

\* Lines 582-584: the handler of any exception of the request.
ReqExcept(rec) ==
    IF rec = NoSolicitud THEN rec
    ELSE _update_finish(rec, EST_FAIL, "error", "None", "None")

ReqInit ==
    /\ bank \in {"SANTANDER", "BBVA", "BANORTE", "INBURSA"}
    /\ pc = "received"
    /\ page = 0
    /\ nrows = 0
    /\ row = (CASE bank = "SANTANDER" -> NoRow
                [] bank = "BBVA" -> NoBbvaRow
                [] bank = "BANORTE" -> NoChunk
                [] OTHER -> NoLine)
    /\ SantIdle /\ BbvaIdle /\ BanIdle /\ InbIdle /\ ColIdle /\ RunIdle /\ HdrIdle
    /\ RecIdle /\ AmtIdle /\ ReqIdle

\* Lines 552-559: the upload is written and stored, the record is inserted.
ReqInsert ==
    /\ pc = "received"
    /\ solicitud' = _insert_processing
    /\ pc' = "inserted"
    /\ UNCHANGED <<bank, page, nrows, row, req_others>>

\* Lines 554-556 raise: writing the upload fails before a record exists.
ReqUploadFails ==
    /\ pc = "received"
    /\ solicitud' = ReqExcept(solicitud)
    /\ pc' = "error returned"
    /\ UNCHANGED <<bank, page, nrows, row, req_others>>

\* Lines 561-562: the extractor of the bank writes the workbook.
ReqExtract ==
    /\ pc = "inserted"
    /\ pc' = "workbook written"
    /\ UNCHANGED <<bank, page, nrows, row, solicitud, req_others>>

\* Line 562 raises: the extractor fails.
ReqExtractFails ==
    /\ pc = "inserted"
    /\ solicitud' = ReqExcept(solicitud)
    /\ pc' = "error returned"
    /\ UNCHANGED <<bank, page, nrows, row, req_others>>

\* Lines 572-574: the workbook is stored (sha None when the store fails) and
\* the record is finished as ok.
ReqFinishOk ==
    /\ pc = "workbook written"
    /\ \E sha \in {"sha", "None"} :
         solicitud' = _update_finish(solicitud, EST_OK, "None", "name", sha)
    /\ pc' = "finished"
    /\ UNCHANGED <<bank, page, nrows, row, req_others>>

\* Line 576: _copy_for_response returns the temporary copy.
ReqCopy ==
    /\ pc = "finished"
    /\ pc' = "copied"
    /\ UNCHANGED <<bank, page, nrows, row, solicitud, req_others>>

\* Line 576 raises: the temporary file cannot be created or written.
ReqCopyFails ==
    /\ pc = "finished"
    /\ solicitud' = ReqExcept(solicitud)
    /\ pc' = "error returned"
    /\ UNCHANGED <<bank, page, nrows, row, req_others>>

\* Lines 577-580: cleanup is scheduled and the file is returned.
ReqRespond ==
    /\ pc = "copied"
    /\ pc' = "file returned"
    /\ UNCHANGED <<bank, page, nrows, row, solicitud, req_others>>

ReqNext ==
    \/ ReqInsert
    \/ ReqUploadFails
    \/ ReqExtract
    \/ ReqExtractFails
    \/ ReqFinishOk
    \/ ReqCopy
    \/ ReqCopyFails
    \/ ReqRespond

-----------------------------------------------------------------------------
\* One run of the extractor on one statement: the profile is fixed at the start.

Init == SantInit \/ BbvaInit \/ BanInit \/ InbInit \/ ColInit \/ RunInit \/ HdrInit \/ RecInit \/ AmtInit \/ ReqInit

Next ==
    \/ SantNext \/ BbvaNext \/ BanNext \/ InbNext \/ ColNext \/ ExtractRun
    \/ ExtractHeaderMetadata
    \/ RecNext
    \/ ReadAmounts
    \/ ReqNext

Spec == Init /\ [][Next]_vars

-----------------------------------------------------------------------------
\* Properties

\* C1: in the Santander pipeline every transaction that flush_current appended to
\* movs_cheques or movs_inver has deposit >= 0, withdrawal >= 0 and at most one of
\* the two non-zero.
C1_FlushedSingleSided ==
    \A l \in {movs_cheques, movs_inver} : \A i \in 1..Len(l) :
        /\ l[i].deposito >= 0
        /\ l[i].retiro >= 0
        /\ (l[i].deposito = 0 \/ l[i].retiro = 0)

\* A flushed transaction whose row carried 100 as deposit and 50 as withdrawal.
C1_Witness ==
    \E i \in 1..Len(movs_cheques) : movs_cheques[i].retiro = 50 /\ movs_cheques[i].deposito = 0

\* C2: the transaction produced from a row whose amount run has length 3 has
\* debit >= 0, credit >= 0 and one of the two zero, for the rows of Banorte's
\* _parse_section_to_rows and for Santander's date rows and amount rows.
C2_ThreeRunSingleSided ==
    /\ (bank = "BANORTE" /\ row.date /\ Len(_extract_amount_run(row.body).vals) = 3) =>
          LET t == ban_rows[Len(ban_rows)]
          IN  t.deposit >= 0 /\ t.withdrawal >= 0 /\ (t.deposit = 0 \/ t.withdrawal = 0)
    /\ (bank = "SANTANDER" /\ Len(_extract_tail_run(SantRowText(row), 3).vals) = 3
        /\ sant_current # NoTx) =>
          /\ sant_current.deposito >= 0 /\ sant_current.retiro >= 0
          /\ (sant_current.deposito = 0 \/ sant_current.retiro = 0)

\* C3: every transaction in the txs of the BBVA assembler has at most one of cargos
\* and abonos non-zero.
C3_BbvaSingleSided ==
    \A i \in 1..Len(txs) : txs[i].cargos = 0 \/ txs[i].abonos = 0

\* C4: in each output list (movs_cheques, movs_inver, txs) the transactions stand
\* in the order of the date rows that opened them.
C4_OutputInDocumentOrder ==
    /\ \A l \in {movs_cheques, movs_inver} :
          \A i, j \in 1..Len(l) : i < j => l[i].id < l[j].id
    /\ \A i, j \in 1..Len(txs) : i < j => txs[i].id < txs[j].id

\* Two transactions of one section, the first with a continuation row.
C4_Witness ==
    Len(movs_cheques) >= 2 /\ Len(movs_cheques[1].desc) >= 2

\* C5 (as the code has it): a date row whose amount run is (v1, v2, v3) yields
\* deposit (credit) v1, withdrawal (debit) v2 and balance v3; Banorte takes the
\* three as they are, Santander, for a description without a keyword, after
\* _reconcile_amounts: the pair is kept unless both are positive, in which case
\* the deposit is dropped.
C5_DepositFirst ==
    /\ (bank = "BANORTE" /\ row.date /\ Len(_extract_amount_run(row.body).vals) = 3) =>
          LET v == _extract_amount_run(row.body).vals
              t == ban_rows[Len(ban_rows)]
          IN  t.deposit = v[1] /\ t.withdrawal = v[2] /\ t.balance = v[3]
    /\ (bank = "SANTANDER" /\ row.date
        /\ Len(_extract_tail_run(SantRowText(row), 3).vals) = 3
        /\ ~_has_tokens(row.desc, ABONO_KEYS \cup RETIRO_KEYS)) =>
          LET v == _extract_tail_run(SantRowText(row), 3).vals
          IN  /\ sant_current.saldo = v[3]
              /\ sant_current.retiro = v[2]
              /\ sant_current.deposito = IF v[1] > 0 /\ v[2] > 0 THEN 0 ELSE v[1]

\* The run (100.00, 0.00, 900.00) of a Banorte chunk without a keyword.
C5_Witness ==
    /\ bank = "BANORTE" /\ row.date
    /\ row.body = <<Word("MISC"), Amount(100), Amount(0), Amount(900)>>
    /\ ban_rows[Len(ban_rows)].deposit = 100
    /\ ban_rows[Len(ban_rows)].withdrawal = 0

\* C5 as stated: a date row whose amount run is (v1, v2, v3) yields debit v1,
\* credit v2 and balance v3.
C5_DebitFirst ==
    /\ (bank = "BANORTE" /\ row.date /\ Len(_extract_amount_run(row.body).vals) = 3) =>
          LET v == _extract_amount_run(row.body).vals
              t == ban_rows[Len(ban_rows)]
          IN  t.withdrawal = v[1] /\ t.deposit = v[2] /\ t.balance = v[3]
    /\ (bank = "SANTANDER" /\ row.date
        /\ Len(_extract_tail_run(SantRowText(row), 3).vals) = 3
        /\ ~_has_tokens(row.desc, ABONO_KEYS \cup RETIRO_KEYS)) =>
          LET v == _extract_tail_run(SantRowText(row), 3).vals
          IN  /\ sant_current.retiro = v[1]
              /\ sant_current.deposito = v[2]
              /\ sant_current.saldo = v[3]

C7_CrossPageCompletion ==
    [][ bank = "BBVA" =>
          /\ (page' # page \/ pc' \in {"between", "after"}) =>
                (txs' = txs /\ bbva_current' = bbva_current)
          /\ (pc = "rows" /\ nrows' = nrows + 1 /\ row' \in BbvaAmountRows
              /\ row'.sop # NoAmt /\ bbva_current # NoBbvaTx
              /\ bbva_current.cargos # 0 /\ bbva_current.abonos = 0) =>
                (txs' = txs /\ bbva_current' = [bbva_current EXCEPT !.s_oper = row'.sop])
      ]_vars

\* The second movement, open with its debit at the end of page 1, gets its balance
\* from a row of page 2.
C7_Witness ==
    /\ bank = "BBVA" /\ page = 2 /\ pc = "rows"
    /\ row.oper = "NONE" /\ row.sop = 900
    /\ second_cross_active /\ current_tx_index = 1 /\ Len(txs) = 1
    /\ bbva_current.cargos = 100 /\ bbva_current.abonos = 0 /\ bbva_current.s_oper = 900

C9_MarkerSplitsSections ==
    [][ /\ (bank = "SANTANDER" /\ nrows' = nrows + 1 /\ row'.marker # "NONE"
            /\ sant_current # NoTx /\ (marker_seen \/ page = 1)) =>
              /\ sant_current' = NoTx
              /\ in_section' = row'.marker
              /\ IF doc_section = "CUENTA"
                 THEN Len(movs_cheques') = Len(movs_cheques) + 1 /\ movs_inver' = movs_inver
                 ELSE Len(movs_inver') = Len(movs_inver) + 1 /\ movs_cheques' = movs_cheques
        /\ (bank = "SANTANDER" /\ nrows' = nrows + 1 /\ row'.marker # "NONE"
            /\ sant_current = NoTx) =>
              (movs_cheques' = movs_cheques /\ movs_inver' = movs_inver /\ sant_current' = NoTx)
      ]_vars

\* C10: a row that lies below a hard-stop sentinel of its page (BBVA dashed line,
\* notice or TOTAL DE MOVIMIENTOS, Inbursa footer line) opens no transaction and
\* changes none, and after the page of TOTAL DE MOVIMIENTOS no row of the BBVA
\* statement is read at all.
C10_NothingAfterHardStop ==
    [][ /\ (bank = "BBVA" /\ page_stop /\ nrows' = nrows + 1) =>
              (txs' = txs /\ bbva_current' = bbva_current)
        /\ (bank = "BBVA" /\ hard_stop_after_this_page) =>
              (nrows' = nrows /\ bbva_current' = bbva_current
               /\ (txs' = txs \/ pc' = "done"))
        /\ (bank = "INBURSA" /\ footer_seen /\ nrows' = nrows + 1) =>
              (all_rows' = all_rows /\ inb_cur' = inb_cur /\ inb_stash' = inb_stash)
      ]_vars

\* A date row was passed over below TOTAL DE MOVIMIENTOS with a transaction open.
C10_Witness ==
    /\ bank = "BBVA" /\ page_stop /\ saw_totals_here
    /\ row.oper = "DATE" /\ bbva_current # NoBbvaTx /\ bbva_current.id < nrows - 1

\* C11 (as the code has it): a date row without a keyword whose amount run is a
\* single amount yields a transaction with that amount as its balance; Banorte
\* leaves deposit and withdrawal 0, Santander takes them from the DEPOSITO and
\* RETIRO cells of the row and never from the classifier's default.
C11_SingleAmountIsBalance ==
    /\ (bank = "BANORTE" /\ row.date /\ Len(_extract_amount_run(row.body).vals) = 1
        /\ ~_has_tokens(row.body, BAN_DEPOSIT_KEYS \cup BAN_WITHDRAWAL_KEYS)) =>
          LET t == ban_rows[Len(ban_rows)]
          IN  /\ t.balance = _extract_amount_run(row.body).vals[1]
              /\ t.deposit = 0 /\ t.withdrawal = 0
    /\ (bank = "SANTANDER" /\ row.date /\ ~row.total
        /\ Len(_extract_tail_run(SantRowText(row), 3).vals) = 1
        /\ ~_has_tokens(row.desc, ABONO_KEYS \cup RETIRO_KEYS)) =>
          /\ sant_current.saldo = _extract_tail_run(SantRowText(row), 3).vals[1]
          /\ sant_current.deposito = (IF row.dep # NoAmt THEN row.dep ELSE 0)
          /\ sant_current.retiro = (IF row.ret # NoAmt THEN row.ret ELSE 0)

\* A Banorte chunk "MISC 900.00": balance 900, no deposit.
C11_Witness ==
    /\ bank = "BANORTE" /\ row.date /\ row.body = <<Word("MISC"), Amount(900)>>
    /\ ban_rows[Len(ban_rows)].balance = 900 /\ ban_rows[Len(ban_rows)].deposit = 0

\* C11 as stated: a date row without a keyword whose amount run is a single
\* amount yields a transaction with that amount as credit and debit 0.
C11_SingleAmountIsCredit ==
    /\ (bank = "BANORTE" /\ row.date /\ Len(_extract_amount_run(row.body).vals) = 1
        /\ ~_has_tokens(row.body, BAN_DEPOSIT_KEYS \cup BAN_WITHDRAWAL_KEYS)) =>
          LET t == ban_rows[Len(ban_rows)]
          IN  t.deposit = _extract_amount_run(row.body).vals[1] /\ t.withdrawal = 0
    /\ (bank = "SANTANDER" /\ row.date /\ ~row.total
        /\ Len(_extract_tail_run(SantRowText(row), 3).vals) = 1
        /\ ~_has_tokens(row.desc, ABONO_KEYS \cup RETIRO_KEYS)) =>
          /\ sant_current.deposito = _extract_tail_run(SantRowText(row), 3).vals[1]
          /\ sant_current.retiro = 0

\* C12 as stated: the bands returned by _detect_columns partition
\* [0, page_width], every position lying in exactly one band, and _assign_cols
\* places every token of a row in exactly one column and drops none.
C12_BandsPartition ==
    pc \in {"cols", "assigned"} =>
      /\ \A xc \in 0..(SCALE * PageWidth) : Cardinality(BandsOf(col_bounds, xc)) = 1
      /\ \A xc \in WordXs :
           Cardinality({k \in 1..Len(row_words) : row_words[k] = xc})
             = Cardinality({<<i, k>> \in (1..Len(cols)) \X (1..MaxWords + 1) :
                              k <= Len(cols[i]) /\ cols[i][k] = xc})

\* The transactions of the Santander run, appended or open, and those of BBVA.
SantAll ==
    movs_cheques \o movs_inver \o (IF sant_current = NoTx THEN <<>> ELSE <<sant_current>>)
BbvaOpen == bbva_current # NoBbvaTx /\ pc # "done"
BbvaAll == txs \o (IF BbvaOpen THEN <<bbva_current>> ELSE <<>>)
TxIds(l) == {l[i].id : i \in 1..Len(l)}
EachOnce(l) == \A i, j \in 1..Len(l) : l[i].id = l[j].id => i = j

\* C13: in the Santander and BBVA assemblers every transaction opened by a date
\* row is appended to an output list exactly once: a date row opens a
\* transaction of its own, no step loses a transaction that is open or appended,
\* no transaction stands twice in the lists, and when the rows are exhausted
\* (Santander: after a page; BBVA: after the last page) none is left open.
C13_AppendedExactlyOnce ==
    /\ [](bank = "SANTANDER" =>
            /\ EachOnce(SantAll)
            /\ (pc = "between" => sant_current = NoTx))
    /\ [](bank = "BBVA" =>
            /\ EachOnce(BbvaAll)
            /\ (pc = "done" /\ bbva_current # NoBbvaTx => bbva_current.id \in TxIds(txs)))
    /\ [][/\ bank = "SANTANDER" =>
               /\ TxIds(SantAll) \subseteq TxIds(SantAll')
               /\ (pc = "rows" /\ nrows' = nrows + 1 /\ row'.marker = "NONE"
                   /\ ~row'.skip /\ row'.date) =>
                     /\ sant_current' # NoTx /\ sant_current'.id = nrows'
                     /\ nrows' \notin TxIds(SantAll)
          /\ bank = "BBVA" =>
               /\ TxIds(BbvaAll) \subseteq TxIds(BbvaAll')
               /\ (pc = "rows" /\ nrows' = nrows + 1 /\ row'.sentinel = "NONE"
                   /\ ~row'.skip /\ row'.oper # "NONE") =>
                     /\ BbvaOpen' /\ bbva_current'.id = nrows'
                     /\ nrows' \notin TxIds(BbvaAll)]_vars

\* Santander after a page: two transactions were opened, one closed by the next
\* date row and one by the end of the page; both are in the lists, none is open.
C13_Witness ==
    /\ bank = "SANTANDER" /\ pc = "between" /\ sant_current = NoTx
    /\ TxIds(movs_cheques \o movs_inver) = {1, 2}
    /\ Len(movs_cheques \o movs_inver) = 2

\* C14: for a non-zero amount to be classified (the first of a run of two on a
\* date row), Banorte's _classify and Santander's _classify_by_keywords give the
\* credit when a credit keyword matches and no debit keyword, the debit when a
\* debit keyword matches and no credit keyword, and the credit when both or
\* neither match; one of the pair is the amount and the other is 0.
C14_ClassifierRule ==
    /\ (bank = "BANORTE" /\ row.date /\ Len(_extract_amount_run(row.body).vals) = 2
        /\ _extract_amount_run(row.body).vals[1] # 0) =>
          LET run == _extract_amount_run(row.body)
              cr == _has_tokens(run.desc, BAN_DEPOSIT_KEYS)
              db == _has_tokens(run.desc, BAN_WITHDRAWAL_KEYS)
              t == ban_rows[Len(ban_rows)]
          IN  IF db /\ ~cr
              THEN t.withdrawal = run.vals[1] /\ t.deposit = 0
              ELSE t.deposit = run.vals[1] /\ t.withdrawal = 0
    /\ (bank = "SANTANDER" /\ row.date
        /\ Len(_extract_tail_run(SantRowText(row), 3).vals) = 2
        /\ _extract_tail_run(SantRowText(row), 3).vals[1] # 0) =>
          LET run == _extract_tail_run(SantRowText(row), 3)
              cr == _has_tokens(run.desc, ABONO_KEYS)
              db == _has_tokens(run.desc, RETIRO_KEYS)
          IN  IF db /\ ~cr
              THEN sant_current.retiro = run.vals[1] /\ sant_current.deposito = 0
              ELSE sant_current.deposito = run.vals[1] /\ sant_current.retiro = 0

\* A Santander date row "ABONO PAGO 100.00 900.00": both keyword lists match and
\* the 100.00 is the deposit.
C14_Witness ==
    /\ bank = "SANTANDER" /\ row.date /\ row.desc = <<Word("ABONO"), Word("PAGO")>>
    /\ sant_current.deposito = 100 /\ sant_current.retiro = 0 /\ sant_current.saldo = 900

\* C15 as stated: when a BBVA date row leaves cargos and abonos 0 and exactly
\* one non-zero balance value, _maybe_fix_amount_columns makes that value the
\* debit when only debit keywords match and the credit otherwise (only credit
\* keywords, both, or neither).
C15_BbvaFixDefaultsCredit ==
    (/\ bank = "BBVA" /\ pc = "rows" /\ row.sentinel = "NONE" /\ ~row.skip
     /\ row.oper # "NONE" /\ row.car = NoAmt /\ row.abo = NoAmt
     /\ Len(SelectSeq(<<row.sop, row.sliq>>, LAMBDA v : v # NoAmt /\ v # 0)) = 1) =>
       LET v == SelectSeq(<<row.sop, row.sliq>>, LAMBDA x : x # NoAmt /\ x # 0)[1]
           cr == _has_tokens(bbva_current.desc, BBVA_CREDIT_KW)
           db == _has_tokens(bbva_current.desc, BBVA_DEBIT_KW)
       IN  IF db /\ ~cr
           THEN bbva_current.cargos = v /\ bbva_current.abonos = 0
           ELSE bbva_current.abonos = v /\ bbva_current.cargos = 0

\* C16: when a Santander row brings a deposit > 0 and a withdrawal > 0 (a run
\* of three amounts), _reconcile_amounts leaves exactly one of them: the
\* deposit when only credit keywords match the description, the withdrawal when
\* only debit keywords match, and the withdrawal when both or neither match.
C16_ReconcileBothPositive ==
    (/\ bank = "SANTANDER" /\ pc = "rows" /\ sant_current # NoTx
     /\ row.marker = "NONE" /\ ~row.skip /\ SantHasMoney(row)
     /\ Len(_extract_tail_run(SantRowText(row), 3).vals) = 3
     /\ _extract_tail_run(SantRowText(row), 3).vals[1] > 0
     /\ _extract_tail_run(SantRowText(row), 3).vals[2] > 0) =>
       LET tail == _extract_tail_run(SantRowText(row), 3).vals
           cr == _has_tokens(sant_current.desc, ABONO_KEYS)
           db == _has_tokens(sant_current.desc, RETIRO_KEYS)
       IN  IF cr /\ ~db
           THEN sant_current.deposito = tail[1] /\ sant_current.retiro = 0
           ELSE sant_current.retiro = tail[2] /\ sant_current.deposito = 0

\* A transaction described "ABONO" receives a row with 100.00 and 50.00: the
\* deposit stays.
C16_Witness ==
    /\ bank = "SANTANDER" /\ pc = "rows" /\ ~row.date /\ row.dep = 100 /\ row.ret = 50
    /\ sant_current # NoTx /\ sant_current.desc = <<Word("ABONO")>>
    /\ sant_current.deposito = 100 /\ sant_current.retiro = 0

\* C17 as stated: on a row text that holds two or three amounts separated only
\* by whitespace the extractor returns the right-most such run (at most three
\* amounts ending at the last amount that has an amount next to it), also when
\* an isolated amount stands further right; the single right-most amount is
\* returned only when the text holds no run.
C17_RightmostRun ==
    pc = "extracted" =>
      LET ends == {i \in 2..Len(line) : IsAmount(line[i]) /\ IsAmount(line[i - 1])}
      IN  IF ends # {}
          THEN LET e == SetMax(ends)
                   b == TailStart(line, e, 1, 3)
               IN  extracted.vals = [i \in 1..(e - b + 1) |-> line[b + i - 1].v]
          ELSE IF AmountPositions(line) # {}
          THEN extracted.vals = <<line[SetMax(AmountPositions(line))].v>>
          ELSE extracted.vals = <<>>

\* C18 as stated: the description returned by the extractor is the row text
\* with exactly the tokens of the returned run removed, the text on both sides
\* of the run kept in its order, and the values are the run's amounts from left
\* to right.
C18_DescriptionKeepsBothSides ==
    pc = "extracted" =>
      IF extracted.vals = <<>> THEN extracted.desc = line
      ELSE \E b \in 1..Len(line) :
             LET n == Len(extracted.vals)
             IN  /\ b + n - 1 <= Len(line)
                 /\ \A i \in 1..n : IsAmount(line[b + i - 1])
                                    /\ line[b + i - 1].v = extracted.vals[i]
                 /\ extracted.desc = SubSeq(line, 1, b - 1) \o SubSeq(line, b + n, Len(line))

\* C19 as stated: a date row that is no totals row and whose amount run has
\* length 1 opens a transaction with that value as balance and with debit and
\* credit 0, whichever column the amount stands in.
C19_SingleValueIsBalanceOnly ==
    /\ (bank = "BANORTE" /\ pc = "chunks" /\ row.date
        /\ Len(_extract_amount_run(row.body).vals) = 1) =>
          LET t == ban_rows[Len(ban_rows)]
          IN  /\ t.balance = _extract_amount_run(row.body).vals[1]
              /\ t.deposit = 0 /\ t.withdrawal = 0
    /\ (bank = "SANTANDER" /\ pc = "rows" /\ row.date /\ ~row.total
        /\ Len(_extract_tail_run(SantRowText(row), 3).vals) = 1) =>
          /\ sant_current.saldo = _extract_tail_run(SantRowText(row), 3).vals[1]
          /\ sant_current.deposito = 0 /\ sant_current.retiro = 0

\* C20 as stated: a Santander row without a date that carries amounts while a
\* transaction is open sets only those of deposit, withdrawal and balance that
\* the transaction does not have yet: a balance already set stays, and the
\* deposit and withdrawal handed to the reconciliation are the earlier ones
\* wherever an earlier row had set them.
C20_AmountRowFillsOnlyUnset ==
    [][(/\ bank = "SANTANDER" /\ pc = "rows" /\ nrows' = nrows + 1
        /\ sant_current # NoTx /\ sant_current' # NoTx
        /\ sant_current'.id = sant_current.id
        /\ ~row'.date /\ SantHasMoney(row')) =>
          /\ sant_current.saldo # NoAmt => sant_current'.saldo = sant_current.saldo
          /\ \E d, r \in {0, 50, 100, 900} :
               /\ sant_current.deposito # 0 => d = sant_current.deposito
               /\ sant_current.retiro # 0 => r = sant_current.retiro
               /\ <<sant_current'.deposito, sant_current'.retiro>>
                    = _reconcile_amounts(sant_current.desc, d, r)]_vars

\* C21 as stated: a row that lacks a valid date never opens a transaction and
\* never closes the open one: a BBVA row with text that is no date in the OPER
\* or LIQ column leaves txs alone and keeps the open TxRow open, and a Banorte
\* chunk whose date token does not parse adds no row.
C21_NoDateNeverOpens ==
    [][/\ (/\ bank = "BBVA" /\ pc = "rows" /\ nrows' = nrows + 1
           /\ row'.sentinel = "NONE" /\ ~row'.skip /\ row'.oper = "TEXT") =>
             /\ txs' = txs
             /\ bbva_current'.id = bbva_current.id
       /\ (/\ bank = "BANORTE" /\ pc = "chunks" /\ nrows' = nrows + 1 /\ ~row'.date) =>
             ban_rows' = ban_rows]_vars

C23_SectionChangesOnlyAtMarker ==
    (bank = "SANTANDER" /\ pc = "rows") => in_section = doc_section

\* C24: the header reader reports each field from the first match of its own
\* pattern: a field that is in the text is reported, a field that is not is
\* reported absent, whatever the other fields are, and the reader never fails.
C24_HeaderFieldsIndependent ==
    pc = "meta" =>
        /\ ~meta.raised
        /\ meta.rfc = FirstHit(full_text.rfc)
        /\ meta.cliente = FirstHit(full_text.cliente)
        /\ meta.clabe = FirstHit(full_text.clabe)
        /\ bank = "SANTANDER" => meta.periodo = FirstHit(full_text.periodo)

\* C25: _reconcile_amounts is idempotent for a fixed description: for debit and
\* credit >= 0 and every combination of keyword matches, applying it to its own
\* result returns that result, and the result has at most one side non-zero.
C25_ReconcileIdempotent ==
    /\ pc \in {"reconciled", "reconciled twice"} =>
          rec_out[1] = 0 \/ rec_out[2] = 0
    /\ pc = "reconciled twice" => rec_again = rec_out

\* Both sides filled, a credit keyword alone: the credit is kept, and kept again.
C25_Witness ==
    /\ pc = "reconciled twice"
    /\ rec_in = <<<<Word("ABONO")>>, 100, 900>>
    /\ rec_out = <<100, 0>>
    /\ rec_again = <<100, 0>>

\* C26: a BBVA page that matches SKIP_PAGE_PAT is passed over with no effect on
\* the assembler: the open transaction, the emitted transactions, the flag
\* second_cross_active and the hard-stop flag are unchanged, and the open
\* transaction is still open to the rows of the page after it.
C26_SkippedPageNoEffect ==
    [][(bank = "BBVA" /\ skipped_after = NotSkipped /\ skipped_after' # NotSkipped) =>
          /\ UNCHANGED <<txs, bbva_current, second_cross_active,
                         hard_stop_after_this_page, current_tx_index>>
          /\ pc' = "between"]_vars

\* The TxRow opened by the first row of page 1 is continued by a text row of the
\* page read after the summary page.
C26_Witness ==
    /\ bank = "BBVA" /\ pc = "rows" /\ page = 2 /\ skipped_after = 1
    /\ bbva_current # NoBbvaTx /\ bbva_current.id = 1 /\ nrows = 2
    /\ row.oper = "NONE" /\ row.desc = <<Word("FOO")>>
    /\ bbva_current.desc = <<Word("MISC"), Word("FOO")>>

\* C27: in _parse_page of Inbursa, what is found above the first dated row of a
\* page is stashed and goes to the transaction opened by that row: the rows
\* emitted before are untouched, the stash is empty from the first dated row to
\* the end of the page, and a page with no dated row emits nothing.
C27_StashGoesToFirstDatedRow ==
    /\ []((bank = "INBURSA" /\ pc \in {"rows", "stop"} /\ active_date # NoDate)
            => inb_stash = NoInbTx)
    /\ [][(bank = "INBURSA" /\ pc \in {"rows", "stop"}) =>
            /\ Len(all_rows') >= Len(all_rows)
            /\ SubSeq(all_rows', 1, Len(all_rows)) = all_rows
            /\ active_date' = NoDate => all_rows' = all_rows
            /\ (inb_stash # NoInbTx /\ active_date = NoDate /\ active_date' # NoDate) =>
                  LET opened == [inb_stash EXCEPT !.date = active_date']
                      v == InbAmounts(row')
                  IN  \/ /\ Len(all_rows') = Len(all_rows) + 1
                         /\ all_rows'[Len(all_rows')] =
                              [opened EXCEPT !.desc = _normalize_concept_lines(@)]
                         /\ inb_cur'.date = active_date'
                      \/ /\ all_rows' = all_rows
                         /\ inb_cur'.date = active_date'
                         /\ inb_cur'.desc = inb_stash.desc \o row'.conc
                         /\ inb_stash.ref # "" => inb_cur'.ref = inb_stash.ref
                         /\ inb_cur'.cargo = IF v.cargo # NoAmt THEN v.cargo
                                             ELSE inb_stash.cargo
                         /\ inb_cur'.abono = IF v.abono # NoAmt THEN v.abono
                                             ELSE inb_stash.abono
                         /\ inb_cur'.saldo = IF v.saldo # NoAmt THEN v.saldo
                                             ELSE inb_stash.saldo]_vars

\* The amounts of a line above the first dated row are in the row it opened.
C27_Witness ==
    /\ bank = "INBURSA" /\ pc = "rows" /\ nrows = 2 /\ all_rows = <<>>
    /\ row.fecha = InbFecha("MON_DAY", "ENE", 2)
    /\ inb_stash = NoInbTx
    /\ inb_cur = InbTx(InbDate("ENE", 2), <<Word("DEPOSITO SPEI")>>, "", NoAmt, 100, 100)

\* C28: every row emitted by _parse_page of Inbursa has a non-empty date, the
\* most recent one parsed from a dated row at or above it on the page: the row
\* that follows a split inherits that date, and a day-only date cell takes its
\* month from the most recent month token of the page.
C28_EmittedRowsCarryLatestDate ==
    /\ [](bank = "INBURSA" =>
            /\ \A i \in 1..Len(all_rows) : all_rows[i].date # NoDate
            /\ pc \in {"rows", "stop"} => inb_cur.date \in {NoDate, active_date}
            /\ pending_month # "" => pending_month = last_month)
    /\ [][(bank = "INBURSA" /\ pc \in {"rows", "stop"}) =>
            LET n == Len(all_rows)
                k == Len(all_rows') - n
            IN  /\ k \in {0, 1, 2}
                /\ k = 2 => /\ all_rows'[n + 1].date = active_date
                            /\ all_rows'[n + 2].date = active_date'
                /\ k = 1 => /\ all_rows'[n + 1].date \in {active_date, active_date'}
                            /\ inb_cur.date = NoDate =>
                                  all_rows'[n + 1].date = active_date'
                /\ (k >= 1 /\ active_date' = active_date /\ pc' = "rows") =>
                      inb_cur'.date = active_date
                /\ (pc = "rows" /\ pc' = "rows" /\ nrows' = nrows + 1
                    /\ row'.fecha.kind = "DAY_ONLY" /\ last_month # "") =>
                      /\ active_date' = InbDate(last_month, row'.fecha.day)
                      /\ inb_cur'.date = active_date']_vars

\* A row split off by a new reference keeps the date ENE 1 of the dated row
\* above it, and the day-only cell 3 below takes the month ENE.
C28_Witness ==
    /\ bank = "INBURSA" /\ pc = "rows" /\ nrows = 3
    /\ Len(all_rows) = 2
    /\ all_rows[1].date = InbDate("ENE", 1) /\ all_rows[1].ref = "R1"
    /\ all_rows[2].date = InbDate("ENE", 1) /\ all_rows[2].ref = "R2"
    /\ row.fecha = InbFecha("DAY_ONLY", "", 3)
    /\ inb_cur.date = InbDate("ENE", 3)

\* C29: in _parse_page of Inbursa, when the CARGOS and ABONOS cells of a line
\* are empty and the SALDO cell holds two or more amounts, the second-to-last
\* amount is the credit and the debit stays unset; the fallback that would make
\* it the debit is taken for no input: the debit is always the CARGOS cell.
C29_FallbackIsAlwaysCredit ==
    (bank = "INBURSA" /\ pc = "amounts read") =>
        /\ amt_out.cargo = amt_line.car
        /\ (amt_line.car = NoAmt /\ amt_line.abo = NoAmt /\ Len(amt_line.sal) >= 2) =>
              /\ amt_out.abono = amt_line.sal[Len(amt_line.sal) - 1]
              /\ amt_out.cargo = NoAmt

\* Both cells empty, SALDO holds 100 900 900: the credit is the second 900.
C29_Witness ==
    /\ bank = "INBURSA" /\ pc = "amounts read"
    /\ amt_line.car = NoAmt /\ amt_line.abo = NoAmt
    /\ amt_line.sal = <<100, 900, 900>>
    /\ amt_out.abono = 900 /\ amt_out.cargo = NoAmt

\* C30: for a request to POST /extract/{bank} the stored estado moves only from
\* processing to ok or from processing to fail: once it is ok with its output
\* recorded, no later step of the request makes it fail or clears the output.
C30_OkIsFinal ==
    [][/\ solicitud'.estado # solicitud.estado =>
            \/ solicitud.estado = "none" /\ solicitud'.estado = EST_PROC
            \/ solicitud.estado = EST_PROC /\ solicitud'.estado \in {EST_OK, EST_FAIL}
       /\ solicitud.estado = EST_OK =>
            /\ solicitud'.estado = EST_OK
            /\ solicitud'.salida_nombre = solicitud.salida_nombre
            /\ solicitud'.salida_sha256 = solicitud.salida_sha256]_vars

=============================================================================
